---- MODULE Spec2Model ----
(***************************************************************************)
(* Model of the write_tool content pipeline.                               *)
(*                                                                         *)
(*   entry = "run_async"        WorkflowThread.run_async                   *)
(*                              (modules/workflow_manager.py) driving      *)
(*                              MonicaAutomator (monica_automator.py)      *)
(*   entry = "generate_content" PoeAutomator.generate_content              *)
(*                              (modules/poe_automator.py)                 *)
(*   entry = "MainWindow"       the buttons of MainWindow (gui/gui_main.py)*)
(*                              pressed while WorkflowThread runs          *)
(*   entry = "_save_article"    WorkflowThread._save_article on one title, *)
(*                              article and image list (SpecSaveArticle)   *)
(*   entry = "wait_for_generation_to_complete"                             *)
(*                              MonicaAutomator.wait_for_generation_to_    *)
(*                              complete against a page whose stop control *)
(*                              comes and goes (SpecWaitGeneration)        *)
(*   entry = "BrowserManager"   one call of BrowserManager                 *)
(*                              (modules/browser_manager.py): a lookup, a  *)
(*                              click, navigate, send_command or a wait    *)
(*                              for an element to go (SpecBrowserManager)  *)
(*   entry = "ToutiaoScraper"   one search_and_scrape call or one content  *)
(*                              extraction of ToutiaoScraper               *)
(*                              (modules/toutiao_scraper.py) (SpecScraper) *)
(*   entry = "TitleReader"      one TitleReader (modules/title_reader.py)  *)
(*                              and the marks made on it (SpecTitleReader) *)
(*   entry = "waits"            the waits of BrowserManager and the word   *)
(*                              count loop of PoeAutomator, under weak     *)
(*                              fairness (SpecWaits)                       *)
(*   entry = "_load_titles_from_excel"                                     *)
(*                              _load_titles_from_excel and                *)
(*                              _update_excel_status on any spreadsheet,   *)
(*                              blank title cells included (SpecLoadTitles)*)
(*   entry = "session"          current_tab_id and the websocket of one    *)
(*                              BrowserManager over its tab operations     *)
(*                              (SpecSession)                              *)
(*   entry = "_send_command"    the commands of one BrowserManager and the *)
(*                              messages Chrome sends back (SpecCommands)  *)
(*   entry = "QiniuConfig"      one QiniuConfig (modules/qiniu_config.py)  *)
(*                              (SpecQiniuConfig)                          *)
(*                                                                         *)
(* The browser, the scraped site, the chat pages and the file system are   *)
(* the environment: every call into them is an action whose result is      *)
(* drawn with \E from the results the call can produce.  A call whose      *)
(* callee may raise has the result "raise"; where the exception lands is   *)
(* decided by the try blocks of the source.                                *)
(*                                                                         *)
(* The status sentinels of the spreadsheet are non-ASCII strings in the    *)
(* source; they are spelled STATUS_COMPLETED and STATUS_FAILED here.       *)
(***************************************************************************)
EXTENDS Naturals, Integers, Sequences, FiniteSets, TLC

\* ------------------------------------------------------------------ bounds
MaxRows   == 2      \* rows of the title spreadsheet
MaxRuns   == 2      \* pipeline runs started one after the other
MaxRounds == 2      \* continuation rounds explored in the Poe loop
MaxTitle  == 3      \* characters of a title handed to _save_article
MaxLines  == 3      \* lines of an article handed to _save_article
MaxPics   == 3      \* image lines read from picture.txt
GraceTicks      == 2  \* the 20 s given to the stop control to appear, in polls
GenerationTicks == 2  \* the generation timeout, in polls
WaitTicks       == 2  \* the longest timeout of a BrowserManager wait, in polls
EventsPerTick   == 2  \* messages the DevTools socket delivers within one poll
MaxTabs         == 2  \* page tabs open in Chrome at a time
MaxCommands     == 3  \* commands one BrowserManager sends
MaxArticles     == 2  \* the article count the scraper is asked for
MaxResults      == 2  \* result links on the search-results page
MaxSelectors    == 3  \* selectors in content_containers

\* --------------------------------------------------------------- constants
NaN   == << >>                   \* a blank cell of the title column
None  == "None"
Title(i) == << i >>              \* the title typed into spreadsheet row i
STATUS_COMPLETED == "completed"  \* workflow_manager.py:129
STATUS_FAILED    == "failed"     \* workflow_manager.py:133
BLANK            == ""           \* fillna('') of the status column
Statuses == {BLANK, STATUS_COMPLETED, STATUS_FAILED}

VARIABLES
    entry,          \* the entry point this behaviour exercises
    config,         \* the configuration dict handed to the thread
    excel,          \* the title spreadsheet: [ncols, rows]
    fs,             \* staging files in the working directory
    browser,        \* the BrowserManager of the thread and its Chrome
    pc,             \* position in run_async
    run,            \* number of runs started so far
    titles,         \* run_async local: the titles loaded for this run
    task_indices,   \* self.task_indices (0-based spreadsheet rows)
    index,          \* run_async local: loop index (0-based)
    t,              \* locals and history of the task being processed
    exc,            \* origin of the exception that left the task loop
    processed,      \* history: spreadsheet rows whose task was begun, this run
    marked,         \* history: row -> the status _update_excel_status wrote last
    poe,            \* state of PoeAutomator.generate_content
    util,           \* the utility browser of MainWindow.launch_utility_browser
    save,           \* locals of one call of WorkflowThread._save_article
    gen,            \* one call of MonicaAutomator.wait_for_generation_to_complete
    bm,             \* one call of a BrowserManager primitive and its page
    scraper,        \* one call of ToutiaoScraper.search_articles and its tabs
    reader,         \* a TitleReader and its spreadsheet
    qiniu,          \* a QiniuConfig and its configuration file
    signals         \* history: the signals run_async emitted and its cleanup,
                    \* in order, this run

vars == << entry, config, excel, fs, browser, pc, run, titles, task_indices,
           index, t, exc, processed, marked, poe, util, save, gen,
                 bm, scraper, reader, qiniu, signals >>

\* ------------------------------------------------------------ spreadsheet
Rows == 1..MaxRows

\* df[0] of pd.read_excel(file_path, header=None)
Column0(df) == [i \in 1..Len(df.rows) |-> df.rows[i].title]

\* df[1].fillna('') ; a one-column sheet has no status column
Column1(df) == [i \in 1..Len(df.rows) |-> df.rows[i].status]

\* Series.dropna().tolist()
dropna(col) == SelectSeq(col, LAMBDA v : v # NaN)

\* workflow_manager.py:244  the row is loaded unless its status is the
\* completed sentinel
IsPendingMutant(status) == status # STATUS_FAILED
IsPending(status) == status # STATUS_COMPLETED

\* a loader that lists the pending tasks last row first
PendingIndicesMutant(df) ==
    LET all_titles == dropna(Column0(df))
        statuses   == Column1(df)
        n          == Len(all_titles)
        idx        == [i \in 1..n |-> n - i]
    IN  IF df.ncols >= 2
        THEN SelectSeq(idx, LAMBDA i : IF i < Len(statuses)
                                       THEN IsPending(statuses[i + 1])
                                       ELSE TRUE)
        ELSE idx

\* workflow_manager.py:237-257  indices (positions in the dropna'd title
\* list) of the pending tasks
PendingIndices(df) ==
    LET all_titles == dropna(Column0(df))
        statuses   == Column1(df)
        idx        == [i \in 1..Len(all_titles) |-> i - 1]
    IN  IF df.ncols >= 2
        THEN SelectSeq(idx, LAMBDA i : IF i < Len(statuses)
                                       THEN IsPending(statuses[i + 1])
                                       ELSE TRUE)
        ELSE idx

\* workflow_manager.py:252  the titles of the pending tasks
PendingTitles(df) ==
    LET all_titles == dropna(Column0(df))
        pend       == PendingIndices(df)
    IN  [k \in 1..Len(pend) |-> all_titles[pend[k] + 1]]

\* workflow_manager.py:274-277  the spreadsheet row of the task at task_index
excel_row_index(indices, task_index) ==
    IF task_index < Len(indices) THEN indices[task_index + 1] ELSE task_index

\* workflow_manager.py:280-291  df.iloc[row, 1] = status ; df.to_excel(...)
WriteStatus(df, row, status) ==
    IF row < Len(df.rows)
    THEN [ncols |-> 2,
          rows  |-> [df.rows EXCEPT ![row + 1].status = status]]
    ELSE df

\* the spreadsheets a run can start from
Sheets ==
    { [ncols |-> n, rows |-> r] :
        n \in {1, 2},
        r \in { rr \in [Rows -> [title : {NaN} \cup {Title(i) : i \in Rows},
                                  status : Statuses]] :
                  \A i \in Rows : rr[i].title \in {NaN, Title(i)} } }

\* the sheets the first run starts from: every row has a title, and rows
\* are blank or completed (a run writes STATUS_FAILED itself)
InitSheets ==
    { df \in Sheets :
        /\ \A i \in Rows : df.rows[i].title # NaN
        /\ \A i \in Rows : df.rows[i].status # STATUS_FAILED
        /\ df.ncols = 1 => \A i \in Rows : df.rows[i].status = BLANK }

\* ---------------------------------------------------------- configuration
\* A field that the selected platform never reads is held at one value.
AllConfigs ==
    [ model                    : {"poe", "monica", "other"},
      model_url                : {"", "url"},
      enable_article_collect   : BOOLEAN,
      enable_image_collect     : BOOLEAN,
      enable_custom_attachment : BOOLEAN,
      custom_attachment_path   : {"", "missing", "custom"},
      continue_prompt          : {"", "continue"},
      min_word_count           : {2} ]

Configs ==
    { c \in AllConfigs :
        /\ (~c.enable_custom_attachment) => c.custom_attachment_path = ""
        /\ (c.model = "other") => c.model_url = "url"
        /\ (c.model # "monica" \/ c.model_url = "") =>
              (~c.enable_custom_attachment /\ c.continue_prompt = "continue") }

\* the word counts a chat response is drawn from: none, and the counts
\* around the configured minimum
WordCounts(cfg) == {0, cfg.min_word_count - 1, cfg.min_word_count,
                   cfg.min_word_count + 1}

\* the configurations under which PoeAutomator.generate_content is exercised
PoeConfigs ==
    { c \in Configs : /\ c.model = "poe" /\ c.model_url = "url"
                      /\ ~c.enable_article_collect /\ ~c.enable_image_collect
                      /\ ~c.enable_custom_attachment
                      /\ c.custom_attachment_path = ""
                      /\ c.continue_prompt = "continue" }

\* the configurations under which the buttons of MainWindow are exercised
\* while a run is going on: the run's tasks end at the platform check
GuiConfigs ==
    { c \in Configs : /\ c.model = "other"
                      /\ ~c.enable_article_collect /\ ~c.enable_image_collect }

\* ------------------------------------------------------------ task locals
NoTask ==
    [ trace             |-> << >>,   \* history: the steps taken for this task
      article_to_upload |-> None,    \* run_async local
      content           |-> << >>,   \* compose_article local: the word counts
                                     \* of the responses joined into content
      first             |-> << >>,   \* history: the first response
      cont_sent         |-> 0,       \* history: continuation prompts sent
      failures          |-> {},      \* history: what went wrong in generation
      saved             |-> FALSE,   \* history: the Markdown file was written
      workflow_success  |-> FALSE ]  \* run_async local

NoBrowser ==
    [ ws |-> None, chrome_process |-> None, connected |-> FALSE, running |-> FALSE ]

\* gui_main.py:147-165  util_browser_thread and the Chrome it starts
NoUtil == [ alive |-> FALSE, chrome |-> FALSE ]

\* no call of wait_for_generation_to_complete is being followed
NoGen == [ pc |-> "off" ]

\* no call of _save_article is being followed
NoSave == [ pc |-> "off" ]

\* no BrowserManager primitive, scraper call or TitleReader is exercised
NoBm == [ pc |-> "off", call |-> "none" ]
NoScraper == [ pc |-> "off", call |-> "none" ]
NoReader == [ pc |-> "off", fresh |-> FALSE ]
NoQiniu == [ pc |-> "off" ]

NoMarks == [i \in 0..(MaxRows - 1) |-> BLANK]

\* a response is << >> (None) or << version, word count >>: two responses
\* are the same HTML exactly when they are the same version
PoeIdle ==
    [ pc               |-> "off",
      response_content |-> << >>,    \* generate_content local
      returned         |-> FALSE,    \* generate_content has returned
      result           |-> << >>,    \* the value it returned
      first            |-> << >>,    \* history: the first response
      cont_sent        |-> 0,        \* history: supplemental prompts sent
      failures         |-> {},       \* history: what went wrong
      trace            |-> << >> ]   \* history: the steps taken

\* The working directory of a run may hold a picture.txt that an earlier run
\* with image collection left behind.
Init ==
    /\ entry \in {"run_async", "generate_content", "MainWindow"}
    /\ config \in CASE entry = "run_async" -> Configs
                   [] entry = "MainWindow" -> GuiConfigs
                   [] OTHER -> PoeConfigs
    /\ excel \in IF entry # "generate_content" THEN InitSheets
                 ELSE {[ncols |-> 1, rows |-> [i \in Rows |-> [title |-> Title(i), status |-> BLANK]]]}
    /\ fs \in IF entry # "generate_content"
              THEN [article_txt : {FALSE},
                    picture_txt : IF entry = "run_async"
                                     /\ ~config.enable_image_collect
                                  THEN BOOLEAN ELSE {FALSE}]
              ELSE [article_txt : BOOLEAN, picture_txt : {FALSE}]
    /\ browser = NoBrowser
    /\ pc = IF entry # "generate_content" THEN "launch" ELSE "off"
    /\ run = IF entry # "generate_content" THEN 1 ELSE 0
    /\ titles = << >>
    /\ task_indices = << >>
    /\ index = 0
    /\ t = NoTask
    /\ exc = None
    /\ processed = << >>
    /\ marked = NoMarks
    /\ poe = IF entry # "generate_content" THEN PoeIdle ELSE [PoeIdle EXCEPT !.pc = "navigate"]
    /\ util = NoUtil
    /\ save = NoSave
    /\ gen = NoGen
    /\ bm = NoBm
    /\ scraper = NoScraper
    /\ reader = NoReader
    /\ qiniu = NoQiniu
    /\ signals = << >>

\* ------------------------------------------------------------- run_async
Step(name) == [t EXCEPT !.trace = Append(@, name)]

\* BrowserManager.launch is awaited by run_async (workflow_manager.py:60) but
\* is not defined by the BrowserManager under src/; it is modelled from the
\* specification of launch(): it kills a Chrome left on the debug port,
\* starts Chrome and connects, and fails if the binary is missing or the
\* handshake times out.
launch ==
    /\ pc = "launch"
    /\ \E r \in {"ok", "no_binary", "no_handshake", "raise"} :
        /\ browser' =
              CASE r = "ok" ->
                     [ws |-> "ws", chrome_process |-> "proc",
                      connected |-> TRUE, running |-> TRUE]
                [] r = "no_handshake" ->
                     [ws |-> None, chrome_process |-> "proc",
                      connected |-> FALSE, running |-> TRUE]
                [] OTHER -> [browser EXCEPT !.running = FALSE]
        /\ pc' = CASE r = "ok" -> "load"
                   [] r = "raise" -> "except"
                   [] OTHER -> "cleanup"
        /\ exc' = IF r = "raise" THEN "launch" ELSE exc
        /\ util' = IF r = "raise" THEN util ELSE [util EXCEPT !.chrome = FALSE]
    /\ UNCHANGED << entry, config, excel, fs, run, titles, task_indices, index,
                    t, processed, marked, poe, save, gen,
                 bm, scraper, reader, qiniu, signals >>

\* workflow_manager.py:65-70 and 225-265
_load_titles_from_excel ==
    /\ pc = "load"
    /\ \E readable \in BOOLEAN :
        /\ titles' = IF readable THEN PendingTitles(excel) ELSE << >>
        /\ task_indices' = IF readable THEN PendingIndices(excel) ELSE << >>
        /\ pc' = IF titles' = << >> THEN "cleanup" ELSE "loop"
    /\ index' = 0
    /\ UNCHANGED << entry, config, excel, fs, browser, run, t, exc, processed,
                    marked, poe, util, save, gen,
                 bm, scraper, reader, qiniu, signals >>

should_scrape_articles == config.enable_article_collect
should_scrape_images   == config.enable_image_collect

\* workflow_manager.py:365-370  os.remove, whose OSError is logged and dropped
ClearedStates(exists) == IF exists THEN {FALSE, TRUE} ELSE {FALSE}

\* a loop body that goes to the generation before the scrape
BeginTaskMutant ==
    /\ pc = "loop"
    /\ index < Len(titles)
    /\ fs' = [article_txt |-> FALSE, picture_txt |-> FALSE]
    /\ t' = [NoTask EXCEPT !.trace = << "clear" >>]
    /\ processed' = Append(processed, excel_row_index(task_indices, index))
    /\ pc' = "attach"
    /\ UNCHANGED << entry, config, excel, browser, run, titles, task_indices,
                    index, exc, marked, poe, util, save, gen,
                 bm, scraper, reader, qiniu, signals >>

\* workflow_manager.py:72-82  the head of the loop body
BeginTask ==
    /\ pc = "loop"
    /\ index < Len(titles)
    /\ \E a \in ClearedStates(fs.article_txt), p \in ClearedStates(fs.picture_txt) :
          fs' = [article_txt |-> a, picture_txt |-> p]
    /\ t' = [NoTask EXCEPT !.trace = << "clear" >>]
    /\ processed' = Append(processed, excel_row_index(task_indices, index))
    /\ pc' = IF should_scrape_articles \/ should_scrape_images
             THEN "scrape" ELSE "attach"
    /\ UNCHANGED << entry, config, excel, browser, run, titles, task_indices,
                    index, exc, marked, poe, util, save, gen,
                 bm, scraper, reader, qiniu, signals >>

\* workflow_manager.py:72  the for loop is exhausted
EndLoop ==
    /\ pc = "loop"
    /\ index >= Len(titles)
    /\ pc' = "cleanup"
    /\ UNCHANGED << entry, config, excel, fs, browser, run, titles, task_indices,
                    index, t, exc, processed, marked, poe, util, save, gen,
                 bm, scraper, reader, qiniu, signals >>

\* workflow_manager.py:82-92 with toutiao_scraper.py:41-75: the scraper
\* reports success after writing the staging files its flags ask for (each
\* only if it has something to write), reports failure, or raises; a
\* reported failure leaves the loop body through `continue`.
scrape_articles_and_images ==
    /\ pc = "scrape"
    /\ \E r \in {"ok", "false", "raise"} :
        \E a \in BOOLEAN, p \in BOOLEAN :
        /\ fs' = IF r = "ok"
                 THEN [article_txt |-> IF should_scrape_articles THEN a
                                       ELSE fs.article_txt,
                       picture_txt |-> IF should_scrape_images THEN p
                                       ELSE fs.picture_txt]
                 ELSE fs
        /\ (r # "ok") => (a /\ p)
        /\ (~should_scrape_articles) => a
        /\ (~should_scrape_images) => p
        /\ t' = Step(CASE r = "ok" -> "scrape_ok"
                       [] r = "false" -> "scrape_failed"
                       [] OTHER -> "scrape_raised")
        /\ pc' = CASE r = "ok" -> "attach"
                   [] r = "false" -> "next"
                   [] OTHER -> "except"
        /\ exc' = IF r = "raise" THEN "scraper" ELSE exc
    /\ UNCHANGED << entry, config, excel, browser, run, titles, task_indices,
                    index, processed, marked, poe, util, save, gen,
                 bm, scraper, reader, qiniu, signals >>

\* a choice that falls back on article.txt when the custom file is unusable
article_to_uploadMutant(cfg, files) ==
    IF cfg.enable_custom_attachment /\ cfg.custom_attachment_path = "custom"
    THEN "custom"
    ELSE IF cfg.enable_article_collect /\ files.article_txt
         THEN "article.txt" ELSE None

\* workflow_manager.py:94-107  the attachment handed to the automator
article_to_upload(cfg, files) ==
    IF cfg.enable_custom_attachment
    THEN IF cfg.custom_attachment_path = "custom" THEN "custom" ELSE None
    ELSE IF cfg.enable_article_collect /\ files.article_txt
         THEN "article.txt" ELSE None

\* workflow_manager.py:94-112
DetermineAttachment ==
    /\ pc = "attach"
    /\ t' = [Step("attachment") EXCEPT
               !.article_to_upload = article_to_upload(config, fs)]
    /\ pc' = "generate"
    /\ UNCHANGED << entry, config, excel, fs, browser, run, titles, task_indices,
                    index, exc, processed, marked, poe, util, save, gen,
                 bm, scraper, reader, qiniu, signals >>

\* the workflow reports failure to run_async (workflow_success = False)
WorkflowFails(why) ==
    /\ t' = [Step("workflow_false") EXCEPT
               !.workflow_success = FALSE, !.failures = @ \cup {why}]
    /\ pc' = "status"

\* workflow_manager.py:116-118 and 155-181.  PoeAutomator.__init__ takes
\* (gui_config, browser_manager) (poe_automator.py:13) and is called with a
\* third argument outside the try block (workflow_manager.py:164): the call
\* raises TypeError, which leaves _run_poe_workflow and the task loop.
_run_poe_workflow ==
    /\ pc = "generate"
    /\ config.model = "poe"
    /\ IF config.model_url = ""
       THEN WorkflowFails("no_model_url") /\ exc' = exc
       ELSE /\ t' = Step("poe_constructor_raised")
            /\ pc' = "except"
            /\ exc' = "PoeAutomator"
    /\ UNCHANGED << entry, config, excel, fs, browser, run, titles, task_indices,
                    index, processed, marked, poe, util, save, gen,
                 bm, scraper, reader, qiniu, signals >>

\* workflow_manager.py:122-124
UnknownPlatform ==
    /\ pc = "generate"
    /\ config.model \notin {"poe", "monica"}
    /\ WorkflowFails("unknown_platform")
    /\ UNCHANGED << entry, config, excel, fs, browser, run, titles, task_indices,
                    index, exc, processed, marked, poe, util, save, gen,
                 bm, scraper, reader, qiniu, signals >>

\* workflow_manager.py:119-121 and 183-195: the model URL check and the
\* first navigate_to_monica; an exception in it is caught at line 211 and
\* has the result of a reported failure
_run_monica_workflow ==
    /\ pc = "generate"
    /\ config.model = "monica"
    /\ IF config.model_url = ""
       THEN WorkflowFails("no_model_url")
       ELSE \E found \in BOOLEAN :
               IF found
               THEN /\ t' = Step("navigate")
                    /\ pc' = "compose"
               ELSE WorkflowFails("navigation")
    /\ UNCHANGED << entry, config, excel, fs, browser, run, titles, task_indices,
                    index, exc, processed, marked, poe, util, save, gen,
                 bm, scraper, reader, qiniu, signals >>

\* ------------------------------------- MonicaAutomator.compose_article
\* The content is kept as the sequence of the word counts of the responses
\* joined into it: << >> is None, << 0 >> is the empty string.
RECURSIVE SumSeq(_)
SumSeq(q) == IF q = << >> THEN 0 ELSE Head(q) + SumSeq(Tail(q))

\* monica_automator.py:416  len(content.replace(' ', '').replace('\n', ''))
word_count(content) == SumSeq(content)

\* Python truth value of the returned article (workflow_manager.py:205)
Truthy(content) == content # << >> /\ content # << 0 >>

\* monica_automator.py:419
NeedsContinuationMutant(words, min_words, continue_prompt) ==
    words <= min_words /\ continue_prompt # ""
NeedsContinuation(words, min_words, continue_prompt) ==
    words < min_words /\ continue_prompt # ""

\* compose_article returns `value` to _run_monica_workflow
\* (workflow_manager.py:205-210): no article is a failed workflow, an
\* article goes to _save_article
ComposeReturns(tt, value, why) ==
    IF Truthy(value)
    THEN /\ t' = [tt EXCEPT !.content = value,
                            !.trace = Append(@, "generated"),
                            !.failures = @ \cup why]
         /\ pc' = "save"
    ELSE /\ t' = [tt EXCEPT !.content = value,
                            !.trace = Append(@, "workflow_false"),
                            !.failures = @ \cup why \cup
                               (IF value = << 0 >> THEN {"empty_article"} ELSE {}),
                            !.workflow_success = FALSE]
         /\ pc' = "status"

MonicaFrame ==
    UNCHANGED << entry, config, excel, fs, browser, run, titles, task_indices,
                 index, exc, processed, marked, poe, util, save, gen,
                 bm, scraper, reader, qiniu, signals >>

\* monica_automator.py:366-369  step 1 of compose_article
compose_navigate ==
    /\ pc = "compose"
    /\ \E found \in BOOLEAN :
          IF found
          THEN /\ t' = Step("compose_navigate")
               /\ pc' = IF t.article_to_upload # None THEN "upload" ELSE "send"
          ELSE ComposeReturns(t, << >>, {"navigation"})
    /\ MonicaFrame

\* monica_automator.py:371-382 with upload_file (326-343): the file may be
\* gone, the upload button selector may be absent, the upload call may
\* return false; all of these are logged and the prompt is sent.  An
\* exception raised by the upload call is caught at line 451.
AttachResults == {"ok", "file_missing", "no_upload_button", "upload_false", "raise"}
AttachFailures == {"file_missing", "no_upload_button", "upload_false"}

\* an attachment that cannot be attached ends compose_article
upload_attachmentMutant ==
    /\ pc = "upload"
    /\ \E r \in AttachResults :
          IF r = "ok"
          THEN /\ t' = Step("attached")
               /\ pc' = "send"
          ELSE ComposeReturns(Step("attach_failed"), << >>, {"attach_failed"})
    /\ MonicaFrame

upload_attachment ==
    /\ pc = "upload"
    /\ \E r \in AttachResults :
          IF r = "raise"
          THEN ComposeReturns(Step("attach_raised"), << >>, {"attach_raised"})
          ELSE /\ t' = Step(IF r = "ok" THEN "attached" ELSE "attach_failed")
               /\ pc' = "send"
    /\ MonicaFrame

\* monica_automator.py:390-393
send_prompt ==
    /\ pc = "send"
    /\ \E sent \in BOOLEAN :
          IF sent
          THEN /\ t' = Step("prompt_sent")
               /\ pc' = "wait"
          ELSE ComposeReturns(t, << >>, {"prompt_send"})
    /\ MonicaFrame

\* monica_automator.py:395-397 with wait_for_generation_to_complete
\* (206-229): the stop control never shows, shows and goes, or is still
\* there when the wait bound expires
wait_for_generation_to_complete ==
    /\ pc = "wait"
    /\ \E r \in {"not_started", "completed", "timeout"} :
          IF r = "timeout"
          THEN ComposeReturns(t, << >>, {"generation_timeout"})
          ELSE /\ t' = Step("generation_complete")
               /\ pc' = "get"
    /\ MonicaFrame

\* monica_automator.py:399-419  the first response and the word-count gate
get_response ==
    /\ pc = "get"
    /\ \E got \in BOOLEAN, w \in WordCounts(config) :
          IF ~got
          THEN w = 0 /\ ComposeReturns(t, << >>, {"no_response"})
          ELSE IF NeedsContinuation(w, config.min_word_count, config.continue_prompt)
               THEN /\ t' = [Step("response") EXCEPT !.content = << w >>,
                                                     !.first = << w >>]
                    /\ pc' = "continue_send"
               ELSE ComposeReturns([Step("response") EXCEPT !.first = << w >>],
                                   << w >>, {})
    /\ MonicaFrame

\* monica_automator.py:423-427  a failed send returns the first content,
\* an exception returns None (line 451)
continue_send_prompt ==
    /\ pc = "continue_send"
    /\ \E r \in {"ok", "false", "raise"} :
        LET tt == [Step("continue_prompt") EXCEPT !.cont_sent = @ + 1]
        IN  CASE r = "ok" -> t' = tt /\ pc' = "continue_wait"
              [] r = "false" -> ComposeReturns(tt, t.content, {"continue_prompt_send"})
              [] OTHER -> ComposeReturns(tt, << >>, {"continue_raised"})
    /\ MonicaFrame

\* monica_automator.py:429-431
continue_wait ==
    /\ pc = "continue_wait"
    /\ \E r \in {"ok", "timeout", "raise"} :
        CASE r = "ok" -> t' = Step("continue_complete") /\ pc' = "continue_get"
          [] r = "timeout" ->
                ComposeReturns(t, t.content, {"continue_generation_timeout"})
          [] OTHER -> ComposeReturns(t, << >>, {"continue_raised"})
    /\ MonicaFrame

\* a loop where the source has a single `if`
continue_get_responseMutant ==
    /\ pc = "continue_get"
    /\ \E got \in BOOLEAN, w \in WordCounts(config) :
          IF ~got
          THEN w = 0 /\ ComposeReturns(t, t.content, {})
          ELSE IF word_count(Append(t.content, w)) < config.min_word_count
                  /\ t.cont_sent < 2
               THEN /\ t' = [Step("continue_response") EXCEPT
                                !.content = Append(@, w)]
                    /\ pc' = "continue_send"
               ELSE ComposeReturns(Step("continue_response"),
                                   Append(t.content, w), {})
    /\ MonicaFrame

\* monica_automator.py:433-449  content + "\n\n" + additional_content
continue_get_response ==
    /\ pc = "continue_get"
    /\ \E got \in BOOLEAN, w \in WordCounts(config) :
          IF ~got
          THEN w = 0 /\ ComposeReturns(t, t.content, {})
          ELSE ComposeReturns(Step("continue_response"), Append(t.content, w), {})
    /\ MonicaFrame

\* workflow_manager.py:209-213 and 297-331: the directory is made and
\* picture.txt is read outside the try block (an exception there is caught
\* at line 211), the write itself is inside one (a failed write is logged
\* and the workflow still returns True)
_save_article ==
    /\ pc = "save"
    /\ \E r \in {"ok", "write_error", "raise"} :
        LET t1 == IF fs.picture_txt THEN Step("insert_images") ELSE t
        IN  IF r = "raise"
            THEN /\ t' = [t EXCEPT !.trace = Append(@, "workflow_false"),
                                   !.failures = @ \cup {"save_raised"},
                                   !.workflow_success = FALSE]
                 /\ pc' = "status"
            ELSE /\ t' = [t1 EXCEPT !.trace = Append(@, "write_file"),
                                    !.saved = (r = "ok"),
                                    !.content = << >>,
                                    !.workflow_success = TRUE]
                 /\ pc' = "status"
    /\ MonicaFrame

\* workflow_manager.py:126-133 and 267-295: an exception while reading or
\* writing the sheet is logged and dropped
_update_excel_status ==
    /\ pc = "status"
    /\ LET status == IF t.workflow_success THEN STATUS_COMPLETED ELSE STATUS_FAILED
           row    == excel_row_index(task_indices, index)
       IN  \E io_ok \in BOOLEAN :
             IF io_ok /\ row < Len(excel.rows)
             THEN /\ excel' = WriteStatus(excel, row, status)
                  /\ marked' = [marked EXCEPT ![row] = status]
                  /\ t' = Step(IF t.workflow_success THEN "status_completed"
                                                     ELSE "status_failed")
             ELSE /\ UNCHANGED << excel, marked >>
                  /\ t' = Step("status_not_written")
    /\ pc' = "next"
    /\ UNCHANGED << entry, config, fs, browser, run, titles, task_indices,
                    index, exc, processed, poe, util, save, gen,
                 bm, scraper, reader, qiniu, signals >>

\* workflow_manager.py:92 and 135: `continue`, or the sleep that ends the
\* loop body; the loop goes to the next title
NextTask ==
    /\ pc = "next"
    /\ index' = index + 1
    /\ t' = NoTask
    /\ pc' = "loop"
    /\ UNCHANGED << entry, config, excel, fs, browser, run, titles, task_indices,
                    exc, processed, marked, poe, util, save, gen,
                 bm, scraper, reader, qiniu, signals >>

\* workflow_manager.py:137-140  the exception is logged and the error
\* signal is emitted
HandleException ==
    /\ pc = "except"
    /\ pc' = "cleanup"
    /\ signals' = Append(signals, "error")
    /\ UNCHANGED << entry, config, excel, fs, browser, run, titles, task_indices,
                    index, t, exc, processed, marked, poe, util, save, gen,
                 bm, scraper, reader, qiniu >>

\* browser_manager.py:833-847  BrowserManager.close; `raised` is ws.close()
\* raising, which the except clause logs
close(b, raised) ==
    IF b.ws # None /\ raised
    THEN b
    ELSE [ ws             |-> None,
           chrome_process |-> None,
           connected      |-> IF b.ws # None THEN FALSE ELSE b.connected,
           running        |-> IF b.chrome_process # None THEN FALSE ELSE b.running ]

\* a finally block that tells the window before it closes the browser
finally_signalsMutant == << "finished", "cleanup" >>

\* workflow_manager.py:141-144  the finally block of run_async: cleanup()
\* is awaited, then the finished signal is emitted
finally_signals == << "cleanup", "finished" >>

\* workflow_manager.py:141-144 and 215-223 with browser_manager.py:1000-1005
cleanup ==
    /\ pc = "cleanup"
    /\ \E raised \in BOOLEAN : browser' = close(browser, raised)
    /\ pc' = "finished"
    /\ signals' = signals \o finally_signals
    /\ UNCHANGED << entry, config, excel, fs, run, titles, task_indices,
                    index, t, exc, processed, marked, poe, util, save, gen,
                 bm, scraper, reader, qiniu >>

\* gui_main.py:166-246  start_workflow once the previous thread has ended:
\* a new WorkflowThread with a new BrowserManager
start_workflow ==
    /\ pc = "finished"
    /\ run < MaxRuns
    /\ run' = run + 1
    /\ browser' = [NoBrowser EXCEPT !.running = browser.running]
    /\ pc' = "launch"
    /\ titles' = << >>
    /\ task_indices' = << >>
    /\ index' = 0
    /\ t' = NoTask
    /\ exc' = None
    /\ processed' = << >>
    /\ signals' = << >>
    /\ UNCHANGED << entry, config, excel, fs, marked, poe, util, save, gen,
                 bm, scraper, reader, qiniu >>

\* ---------------------------------------- MainWindow.launch_utility_browser
\* gui_main.py:147-150 and 164-165: the button is refused only while the
\* utility thread itself is alive; a running WorkflowThread is not looked at
launch_utility_browser ==
    /\ entry = "MainWindow"
    /\ ~util.alive
    /\ util' = [util EXCEPT !.alive = TRUE]
    /\ UNCHANGED << entry, config, excel, fs, browser, pc, run, titles,
                    task_indices, index, t, exc, processed, marked, poe, save, gen,
                 bm, scraper, reader, qiniu, signals >>

\* gui_main.py:153-161 with browser_manager.py:53-109: the thread builds a
\* BrowserManager on the default debug port and launches it:
\* _kill_existing_chrome kills every Chrome started with that port, the one
\* of the running workflow included, then a new Chrome is started (or the
\* start fails); the thread ends and leaves its Chrome running.
start_util_browser ==
    /\ entry = "MainWindow"
    /\ util.alive
    /\ \E started \in BOOLEAN :
          util' = [alive |-> FALSE, chrome |-> started]
    /\ browser' = [browser EXCEPT !.running = FALSE]
    /\ UNCHANGED << entry, config, excel, fs, pc, run, titles,
                    task_indices, index, t, exc, processed, marked, poe, save, gen,
                 bm, scraper, reader, qiniu, signals >>

MainWindowNext ==
    \/ launch_utility_browser
    \/ start_util_browser

\* ------------------------------------- PoeAutomator.generate_content
PoeFrame ==
    UNCHANGED << entry, config, excel, fs, browser, pc, run, titles,
                 task_indices, index, t, exc, processed, marked, util, save, gen,
                 bm, scraper, reader, qiniu, signals >>

PoeStep(name, next) == [poe EXCEPT !.trace = Append(@, name), !.pc = next]

\* generate_content returns `value`
PoeReturn(p, value) ==
    [p EXCEPT !.pc = "done", !.returned = TRUE, !.result = value]

PoeFail(why) ==
    PoeReturn([poe EXCEPT !.failures = @ \cup {why}], << >>)

\* poe_automator.py:284-289  len(content.split()) >= min_words
check_content_length(content, min_words) == content[2] >= min_words

\* poe_automator.py:313-315 with navigate_to_poe (82-108)
navigate_to_poe ==
    /\ entry = "generate_content"
    /\ poe.pc = "navigate"
    /\ \E ok \in BOOLEAN :
          poe' = IF ok THEN PoeStep("navigate", "chat_ready")
                 ELSE PoeFail("navigation")
    /\ PoeFrame

\* poe_automator.py:317-325 with wait_for_chat_ready (110-152); the
\* material file is article.txt when it exists (line 311)
wait_for_chat_ready ==
    /\ poe.pc = "chat_ready"
    /\ \E ok \in BOOLEAN :
          poe' = IF ok
                 THEN PoeStep("chat_ready",
                              IF fs.article_txt THEN "upload" ELSE "send")
                 ELSE PoeFail("navigation")
    /\ PoeFrame

\* poe_automator.py:322-325 with upload_file (154-187): every failure of
\* the upload, an exception included, comes back as False and is logged
poe_upload_file ==
    /\ poe.pc = "upload"
    /\ \E r \in {"ok"} \cup AttachFailures :
          poe' = PoeStep(IF r = "ok" THEN "attached" ELSE "attach_failed", "send")
    /\ PoeFrame

\* poe_automator.py:327-330 with send_message (189-233)
poe_send_message ==
    /\ poe.pc = "send"
    /\ \E sent \in BOOLEAN :
          poe' = IF sent THEN PoeStep("prompt_sent", "wait")
                 ELSE PoeFail("prompt_send")
    /\ PoeFrame

\* poe_automator.py:332-333 with wait_for_response (235-263): the value
\* wait_for_response returns is not read
poe_wait_for_response ==
    /\ poe.pc = "wait"
    /\ \E r \in {"completed", "timeout"} :
          poe' = IF r = "completed"
                 THEN PoeStep("generation_complete", "get")
                 ELSE [PoeStep("generation_timeout", "get") EXCEPT
                          !.failures = @ \cup {"generation_timeout"}]
    /\ PoeFrame

\* poe_automator.py:335-339 with get_latest_response (265-282)
poe_get_latest_response ==
    /\ poe.pc = "get"
    /\ \E got \in BOOLEAN, w \in WordCounts(config) \ {0} :
          poe' = IF got
                 THEN [PoeStep("response", "check") EXCEPT
                          !.response_content = << 1, w >>,
                          !.first = << 1, w >>]
                 ELSE PoeFail("no_response")
    /\ PoeFrame

\* poe_automator.py:341-343 and 355-360: the head of the while loop.
\* check_content_length(None, ...) raises, and the except clause at line
\* 358 returns None.
poe_loop_head ==
    /\ poe.pc = "check"
    /\ poe' = IF poe.response_content = << >>
              THEN PoeFail("no_response")
              ELSE IF check_content_length(poe.response_content,
                                           config.min_word_count)
                   THEN PoeReturn(poe, poe.response_content)
                   ELSE PoeStep("too_short", "supplement_send")
    /\ PoeFrame

\* poe_automator.py:344-346
poe_send_supplemental ==
    /\ poe.pc = "supplement_send"
    /\ poe.cont_sent < MaxRounds
    /\ \E sent \in BOOLEAN :
        LET p == [poe EXCEPT !.cont_sent = @ + 1,
                             !.trace = Append(@, "continue_prompt")]
        IN  poe' = IF sent THEN [p EXCEPT !.pc = "supplement_wait"]
                   ELSE PoeReturn([p EXCEPT !.failures =
                                      @ \cup {"continue_prompt_send"}],
                                  poe.response_content)
    /\ PoeFrame

\* poe_automator.py:348
poe_wait_supplemental ==
    /\ poe.pc = "supplement_wait"
    /\ \E r \in {"completed", "timeout"} :
          poe' = IF r = "completed"
                 THEN PoeStep("continue_complete", "supplement_get")
                 ELSE [PoeStep("continue_timeout", "supplement_get") EXCEPT
                          !.failures = @ \cup {"continue_generation_timeout"}]
    /\ PoeFrame

\* poe_automator.py:349-353
poe_get_supplemental ==
    /\ poe.pc = "supplement_get"
    /\ \E r \in {"none", "same", "new"}, w \in WordCounts(config) \ {0} :
        LET old == poe.response_content
        IN  poe' =
              CASE r = "same" -> PoeReturn(poe, old)
                [] r = "none" ->
                     [PoeStep("continue_no_response", "check") EXCEPT
                         !.response_content = << >>]
                [] OTHER ->
                     [PoeStep("continue_response", "check") EXCEPT
                         !.response_content = << old[1] + 1, w >>]
    /\ PoeFrame

GenerateContentNext ==
    \/ navigate_to_poe
    \/ wait_for_chat_ready
    \/ poe_upload_file
    \/ poe_send_message
    \/ poe_wait_for_response
    \/ poe_get_latest_response
    \/ poe_loop_head
    \/ poe_send_supplemental
    \/ poe_wait_supplemental
    \/ poe_get_supplemental

RunAsyncNext ==
    \/ launch
    \/ _load_titles_from_excel
    \/ BeginTask
    \/ EndLoop
    \/ scrape_articles_and_images
    \/ DetermineAttachment
    \/ _run_poe_workflow
    \/ UnknownPlatform
    \/ _run_monica_workflow
    \/ compose_navigate
    \/ upload_attachment
    \/ send_prompt
    \/ wait_for_generation_to_complete
    \/ get_response
    \/ continue_send_prompt
    \/ continue_wait
    \/ continue_get_response
    \/ _save_article
    \/ _update_excel_status
    \/ NextTask
    \/ HandleException
    \/ cleanup
    \/ start_workflow

Next == RunAsyncNext \/ GenerateContentNext \/ MainWindowNext

Spec == Init /\ [][Next]_vars

\* ================================================ WorkflowThread._save_article
\* One call of _save_article, followed step by step.  Strings are sequences
\* of one-character strings.

\* the characters titles are made of: a letter, a digit, a space, a dash,
\* an underscore and a path separator
TitleChars == {"a", "7", " ", "-", "_", "/"}

\* str.isalnum on one character
isalnum(c) == c \in {"a", "7"}

\* str.isspace on one character
isspace(c) == c \in {" ", "\n"}

\* a filter that also lets the dash through
keepsMutant(c) == isalnum(c) \/ c \in {" ", "-", "_"}

\* workflow_manager.py:304  c.isalnum() or c in (' ', '_')
keeps(c) == isalnum(c) \/ c \in {" ", "_"}

\* str.rstrip()
RECURSIVE rstrip(_)
rstrip(q) ==
    IF q # << >> /\ isspace(q[Len(q)]) THEN rstrip(SubSeq(q, 1, Len(q) - 1))
    ELSE q

\* str.lstrip()
RECURSIVE lstrip(_)
lstrip(q) ==
    IF q # << >> /\ isspace(q[1]) THEN lstrip(Tail(q)) ELSE q

\* str.strip()
strip(q) == lstrip(rstrip(q))

\* str.startswith(prefix)
startswith(q, prefix) ==
    Len(q) >= Len(prefix) /\ SubSeq(q, 1, Len(prefix)) = prefix

\* workflow_manager.py:304
safe_title(title) == rstrip(SelectSeq(title, keeps))

\* workflow_manager.py:298 and 305  os.path.join(save_path, f"{safe_title}.md")
filename(title) == << "save_path", "/" >> \o safe_title(title) \o << ".md" >>

\* str.split('\n')
RECURSIVE split(_)
split(q) ==
    IF \E i \in DOMAIN q : q[i] = "\n"
    THEN LET k == CHOOSE i \in DOMAIN q :
                    q[i] = "\n" /\ \A j \in 1..(i - 1) : q[j] # "\n"
         IN  << SubSeq(q, 1, k - 1) >> \o split(SubSeq(q, k + 1, Len(q)))
    ELSE << q >>

\* '\n'.join(lines)
RECURSIVE join(_)
join(ls) ==
    IF ls = << >> THEN << >>
    ELSE IF Len(ls) = 1 THEN ls[1]
    ELSE ls[1] \o << "\n" >> \o join(Tail(ls))

\* workflow_manager.py:347  line.strip().startswith('## ')
IsLevel2Heading(line) == startswith(strip(line), << "#", "#", " " >>)

\* workflow_manager.py:358  the heading put before the images left over
RelatedImages == << "#", "#", " ", "R" >>

\* a loop that goes round the image list again when it runs out
RECURSIVE InsertLoopMutant(_, _, _, _)
InsertLoopMutant(lines, picture_lines, i, picture_index) ==
    IF i > Len(lines)
    THEN [result_lines |-> << >>, picture_index |-> picture_index]
    ELSE LET hit  == IsLevel2Heading(lines[i])
             rest == InsertLoopMutant(lines, picture_lines, i + 1,
                                IF hit THEN picture_index + 1 ELSE picture_index)
         IN  [result_lines |->
                 (IF hit
                  THEN << lines[i], << >>,
                          picture_lines[(picture_index % Len(picture_lines)) + 1],
                          << >> >>
                  ELSE << lines[i] >>) \o rest.result_lines,
              picture_index |-> rest.picture_index]

\* workflow_manager.py:343-352  the loop over the lines from line i on:
\* [result_lines, picture_index]
RECURSIVE InsertLoop(_, _, _, _)
InsertLoop(lines, picture_lines, i, picture_index) ==
    IF i > Len(lines)
    THEN [result_lines |-> << >>, picture_index |-> picture_index]
    ELSE LET hit  == /\ IsLevel2Heading(lines[i])
                     /\ picture_index < Len(picture_lines)
             rest == InsertLoop(lines, picture_lines, i + 1,
                                IF hit THEN picture_index + 1 ELSE picture_index)
         IN  [result_lines |->
                 (IF hit
                  THEN << lines[i], << >>, picture_lines[picture_index + 1], << >> >>
                  ELSE << lines[i] >>) \o rest.result_lines,
              picture_index |-> rest.picture_index]

\* a tail that starts one image too late
RECURSIVE LeftoverMutant(_, _)
LeftoverMutant(picture_lines, picture_index) ==
    IF picture_index + 1 < Len(picture_lines)
    THEN << picture_lines[picture_index + 2], << >> >>
            \o LeftoverMutant(picture_lines, picture_index + 1)
    ELSE << >>

\* workflow_manager.py:354-361  the images left over, each followed by an
\* empty line, under the trailing heading
RECURSIVE Leftover(_, _)
Leftover(picture_lines, picture_index) ==
    IF picture_index < Len(picture_lines)
    THEN << picture_lines[picture_index + 1], << >> >>
            \o Leftover(picture_lines, picture_index + 1)
    ELSE << >>

\* an insertion that stops at the end of the document: the images no heading
\* took are not written
_insert_images_after_headingsMutant(content, picture_lines) ==
    join(InsertLoop(split(content), picture_lines, 1, 0).result_lines)

\* workflow_manager.py:333-363
_insert_images_after_headings(content, picture_lines) ==
    LET loop == InsertLoop(split(content), picture_lines, 1, 0)
        tail == IF loop.picture_index < Len(picture_lines)
                THEN << << >>, RelatedImages, << >> >>
                        \o Leftover(picture_lines, loop.picture_index)
                ELSE << >>
    IN  join(loop.result_lines \o tail)

\* the titles, article lines, articles and image lists a call is given
Titles == UNION { [1..n -> TitleChars] : n \in 1..MaxTitle }

LineSet ==
    { << >>,
      << "x" >>,
      << "#", "#", " ", "x" >>,
      << " ", "#", "#", " ", "x" >>,
      << "#", "#", "#", " ", "x" >>,
      << "#", "#", "x" >> }

Docs == UNION { [1..n -> LineSet] : n \in 1..MaxLines }

\* the k-th image line of picture.txt
Image(k) == << "!" >> \o [j \in 1..k |-> "i"]

Pictures(m) == [k \in 1..m |-> Image(k)]

SaveCalls ==
    { [ pc |-> "start", title |-> ti, article |-> join(ls),
        content |-> join(ls), picture_lines |-> Pictures(m),
        filename |-> << >>, written |-> << >>, ok |-> FALSE ] :
        ti \in Titles, ls \in { << << "x" >> >> }, m \in {0} }
    \cup
    { [ pc |-> "start", title |-> ti, article |-> join(ls),
        content |-> join(ls), picture_lines |-> Pictures(m),
        filename |-> << >>, written |-> << >>, ok |-> FALSE ] :
        ti \in { << "a" >> }, ls \in Docs, m \in 0..MaxPics }

SaveInit ==
    /\ entry = "_save_article"
    /\ config \in PoeConfigs
    /\ excel = [ncols |-> 1,
                rows |-> [i \in Rows |-> [title |-> Title(i), status |-> BLANK]]]
    /\ fs = [article_txt |-> FALSE, picture_txt |-> FALSE]
    /\ browser = NoBrowser
    /\ pc = "off"
    /\ run = 0
    /\ titles = << >>
    /\ task_indices = << >>
    /\ index = 0
    /\ t = NoTask
    /\ exc = None
    /\ processed = << >>
    /\ marked = NoMarks
    /\ poe = PoeIdle
    /\ util = NoUtil
    /\ save \in SaveCalls
    /\ gen = NoGen
    /\ bm = NoBm
    /\ scraper = NoScraper
    /\ reader = NoReader
    /\ qiniu = NoQiniu
    /\ signals = << >>

SaveFrame ==
    UNCHANGED << entry, config, excel, fs, browser, pc, run, titles,
                 task_indices, index, t, exc, processed, marked, poe, util, gen,
                 bm, scraper, reader, qiniu, signals >>

\* workflow_manager.py:298-305  the save directory and the file name
save_filename ==
    /\ save.pc = "start"
    /\ save' = [save EXCEPT !.pc = "pictures", !.filename = filename(save.title)]
    /\ SaveFrame

\* workflow_manager.py:307-322  the image lines of picture.txt, when there
\* are any, are put into the article
save_pictures ==
    /\ save.pc = "pictures"
    /\ save' = [save EXCEPT
                  !.pc = "write",
                  !.content =
                     IF save.picture_lines # << >>
                     THEN _insert_images_after_headings(save.content,
                                                        save.picture_lines)
                     ELSE save.content]
    /\ SaveFrame

\* workflow_manager.py:324-331  the write, whose exception is logged
save_write ==
    /\ save.pc = "write"
    /\ \E ok \in BOOLEAN :
          save' = [save EXCEPT !.pc = "done", !.ok = ok,
                               !.written = IF ok THEN save.content ELSE << >>]
    /\ SaveFrame

SaveNext == save_filename \/ save_pictures \/ save_write

SpecSaveArticle == SaveInit /\ [][SaveNext]_vars

\* ============================ MonicaAutomator.wait_for_generation_to_complete
\* One call, against a page whose stop-generating control appears and goes
\* away as the page decides.  Time is counted in polls (0.5 s sleeps).

\* the time up to which the page is followed
TimeCap == GraceTicks + GenerationTicks + 1

\* browser_manager.py:236-238  the selector is an XPath or a CSS selector
SelectorKinds == {"xpath", "css"}

GenCalls ==
    { [ pc |-> "start",
        selector |-> sel,        \* stop_generating_button_selector is set
        kind |-> k,              \* what _is_xpath says of it
        now |-> 0,               \* time since the call
        stop |-> st,             \* the control: "not_yet", "visible", "gone"
        appeared_at |-> IF st = "visible" THEN 0 ELSE -1,
        gone_at |-> -1,
        found_at |-> -1,         \* when find_element returned the control
        result |-> FALSE,
        returned_at |-> -1 ] :
        sel \in BOOLEAN, k \in SelectorKinds, st \in {"not_yet", "visible"} }

GenInit ==
    /\ entry = "wait_for_generation_to_complete"
    /\ config \in PoeConfigs
    /\ excel = [ncols |-> 1,
                rows |-> [i \in Rows |-> [title |-> Title(i), status |-> BLANK]]]
    /\ fs = [article_txt |-> FALSE, picture_txt |-> FALSE]
    /\ browser = NoBrowser
    /\ pc = "off"
    /\ run = 0
    /\ titles = << >>
    /\ task_indices = << >>
    /\ index = 0
    /\ t = NoTask
    /\ exc = None
    /\ processed = << >>
    /\ marked = NoMarks
    /\ poe = PoeIdle
    /\ util = NoUtil
    /\ save = NoSave
    /\ gen \in GenCalls
    /\ bm = NoBm
    /\ scraper = NoScraper
    /\ reader = NoReader
    /\ qiniu = NoQiniu
    /\ signals = << >>

GenFrame ==
    UNCHANGED << entry, config, excel, fs, browser, pc, run, titles,
                 task_indices, index, t, exc, processed, marked, poe, util,
                 save, bm, scraper, reader, qiniu, signals >>

GenReturn(value) ==
    [gen EXCEPT !.pc = "done", !.result = value, !.returned_at = gen.now]

\* the page: the control appears when generation starts and goes away when
\* it ends
page_stop_control ==
    /\ gen.pc # "off"
    /\ gen.stop \in {"not_yet", "visible"}
    /\ gen' = IF gen.stop = "not_yet"
              THEN [gen EXCEPT !.stop = "visible", !.appeared_at = gen.now]
              ELSE [gen EXCEPT !.stop = "gone", !.gone_at = gen.now]
    /\ GenFrame

\* time goes on after the call has returned
time_passes ==
    /\ gen.pc = "done"
    /\ gen.now < TimeCap
    /\ gen' = [gen EXCEPT !.now = @ + 1]
    /\ GenFrame

\* monica_automator.py:208-213
gen_begin ==
    /\ gen.pc = "start"
    /\ gen' = IF gen.selector THEN [gen EXCEPT !.pc = "find_element"]
              ELSE GenReturn(FALSE)
    /\ GenFrame

\* monica_automator.py:215-219 with browser_manager.py:240-257, 327-370 and
\* 372-406: one look for the control.  _find_element_by_css looks again
\* after a sleep for as long as the timeout allows; _find_elements_by_xpath
\* searches the document once and does not use its timeout.
gen_find_element ==
    /\ gen.pc = "find_element"
    /\ gen' =
          IF gen.stop = "visible"
          THEN [gen EXCEPT !.pc = "wait_for_hidden", !.found_at = gen.now]
          ELSE IF gen.kind = "css" /\ gen.now + 1 < GraceTicks
               THEN [gen EXCEPT !.now = @ + 1]
               ELSE IF gen.kind = "css"
                    THEN [GenReturn(TRUE) EXCEPT !.now = gen.now + 1,
                                                 !.returned_at = gen.now + 1]
                    ELSE GenReturn(TRUE)
    /\ GenFrame

\* monica_automator.py:221-229  stop_button.wait_for(state='hidden',
\* timeout=timeout): True once the control is gone, False when the timeout
\* raises
gen_wait_for_hidden ==
    /\ gen.pc = "wait_for_hidden"
    /\ gen' =
          IF gen.stop = "gone" THEN GenReturn(TRUE)
          ELSE IF gen.now >= gen.found_at + GenerationTicks THEN GenReturn(FALSE)
          ELSE [gen EXCEPT !.now = @ + 1]
    /\ GenFrame

GenNext ==
    \/ page_stop_control
    \/ time_passes
    \/ gen_begin
    \/ gen_find_element
    \/ gen_wait_for_hidden

SpecWaitGeneration == GenInit /\ [][GenNext]_vars

\* =========================================== BrowserManager, one call at a time
\* The page and the DevTools connection are the environment.  Time is counted
\* in polls of 0.5 s; a command that gets no answer returns None to its caller
\* (browser_manager.py:154-200 catches every exception of the socket).

BmFrame ==
    UNCHANGED << entry, config, excel, fs, browser, pc, run, titles,
                 task_indices, index, t, exc, processed, marked, poe, util,
                 save, gen, scraper, reader, qiniu, signals >>

\* the element selected by the call is put on the page
page_element_appears ==
    /\ bm.call \in {"find_element", "find_elements"}
    /\ bm.pc \in {"call", "poll", "done"}
    /\ ~bm.present
    /\ bm' = [bm EXCEPT !.present = TRUE, !.appeared_at = bm.now]
    /\ BmFrame

\* time.sleep(0.5) of the polling loop, and the time that goes by after a
\* lookup has returned, up to the timeout it was given
find_time_passes ==
    /\ bm.call \in {"find_element", "find_elements"}
    /\ \/ bm.pc = "sleep"
       \/ bm.pc = "done" /\ bm.now < bm.timeout
    /\ bm' = [bm EXCEPT !.now = @ + 1,
                        !.pc = IF bm.pc = "sleep" THEN "poll" ELSE "done"]
    /\ BmFrame

\* browser_manager.py:240-257, 409-418  what the caller gets from a list
first_or_None(call, elements) ==
    IF call = "find_elements" THEN elements
    ELSE IF elements # "[]" THEN "element" ELSE "None"

\* browser_manager.py:327-370  DOM.getDocument, DOM.performSearch and
\* DOM.getSearchResults are sent once; `timeout` is not used
_find_elements_by_xpath ==
    /\ bm.call \in {"find_element", "find_elements"}
    /\ bm.pc = "call"
    /\ bm.kind = "xpath"
    /\ \E resp \in {"ok", "none"} :
          bm' = [bm EXCEPT
                   !.pc = "done",
                   !.lost = bm.lost \/ resp = "none",
                   !.result = first_or_None(bm.call,
                                 IF resp = "ok" /\ bm.present
                                 THEN "[element]" ELSE "[]")]
    /\ BmFrame

\* browser_manager.py:394-402  one more look is due while the timeout has
\* not elapsed
css_loop_continues(now, timeout) == now < timeout

\* browser_manager.py:372-407  document.querySelector every 0.5 s until the
\* element is found or the timeout has elapsed
_find_element_by_css ==
    /\ bm.call = "find_element"
    /\ bm.pc \in {"call", "poll"}
    /\ bm.kind = "css"
    /\ IF css_loop_continues(bm.now, bm.timeout)
       THEN \E resp \in {"ok", "none"} :
               bm' = IF resp = "ok" /\ bm.present
                     THEN [bm EXCEPT !.pc = "done", !.result = "element"]
                     ELSE [bm EXCEPT !.pc = "sleep",
                                     !.lost = bm.lost \/ resp = "none"]
       ELSE bm' = [bm EXCEPT !.pc = "done", !.result = "None"]
    /\ BmFrame

\* browser_manager.py:420-451  document.querySelectorAll is run once;
\* `timeout` is not used
_find_elements_by_css ==
    /\ bm.call = "find_elements"
    /\ bm.pc = "call"
    /\ bm.kind = "css"
    /\ \E resp \in {"ok", "none"} :
          bm' = [bm EXCEPT
                   !.pc = "done",
                   !.lost = bm.lost \/ resp = "none",
                   !.result = IF resp = "ok" /\ bm.present
                              THEN "[element]" ELSE "[]"]
    /\ BmFrame

\* the lookups a caller can make: the selector is an XPath or a CSS selector
\* (_is_xpath, browser_manager.py:236-238), the element is on the page at the
\* call or not yet
FindCalls ==
    { [ call |-> c, pc |-> "call", kind |-> k, timeout |-> to, now |-> 0,
        present |-> p, appeared_at |-> 0, lost |-> FALSE,
        result |-> "pending" ] :
        c \in {"find_element", "find_elements"}, k \in SelectorKinds,
        to \in 1..WaitTicks, p \in BOOLEAN }

\* ----------------------------------------------------- BrowserManager clicks
\* What a caller hands to a click: the dict _get_element_info builds for an
\* XPath match (id and backendNodeId, browser_manager.py:312-319), the dict
\* the CSS lookups return (id, no backendNodeId, 383-389 and 432-437), or a
\* selector string.
ElementInfos == {"xpath_handle", "css_handle", "selector"}

\* bm.located: the element handed to the click, or looked up by it, exists
\* bm.tried: history, << strategy, what it returned, where it clicked >>

has_id(info) == info \in {"xpath_handle", "css_handle"}

has_backendNodeId(info) == info = "xpath_handle"

\* browser_manager.py:1185-1268  a selector is looked up first; the position
\* script falls back to fixed coordinates, the mouse events are sent and
\* the result is True
click_element_simple(info, found, resp) ==
    IF info = "selector" /\ ~found THEN FALSE
    ELSE IF info # "selector" /\ ~has_id(info) THEN FALSE
    ELSE TRUE

\* browser_manager.py:1088-1183  False when the node, its id or its box
\* model cannot be had
click_element_with_dom_api(info, found, resp) ==
    IF info = "selector" /\ ~found THEN FALSE
    ELSE IF info # "selector" /\ ~has_id(info) THEN FALSE
    ELSE resp = "ok"

\* browser_manager.py:1007-1086  False when the bounds script gives nothing
click_element_with_mouse(info, found, resp) ==
    IF info = "selector" /\ ~found THEN FALSE
    ELSE IF info # "selector" /\ ~has_id(info) THEN FALSE
    ELSE resp = "ok"

\* browser_manager.py:1327-1335  the strategies of click_element_direct in
\* the order of its if statements
Strategies ==
    << "click_element_simple", "click_element_with_dom_api",
       "click_element_with_mouse" >>

\* where the mouse events of a strategy went: the centre computed from the
\* element, the fixed point (500, 300) click_element_simple takes when the
\* position script gave nothing (browser_manager.py:1229-1232), or nowhere
StrategyCoordinates(s, info, found, resp) ==
    IF (info = "selector" /\ ~found) \/ (info # "selector" /\ ~has_id(info))
    THEN "none"
    ELSE IF resp = "ok" THEN "element"
    ELSE IF s = "click_element_simple" THEN "default"
    ELSE "none"

StrategyResult(s, info, found, resp) ==
    CASE s = "click_element_simple" -> click_element_simple(info, found, resp)
      [] s = "click_element_with_dom_api" ->
             click_element_with_dom_api(info, found, resp)
      [] OTHER -> click_element_with_mouse(info, found, resp)

\* browser_manager.py:1327-1335  one `if` of click_element_direct: the next
\* strategy is called, True is returned when it returned True, False after
\* the last one
click_element_direct ==
    /\ bm.call = "click_element_direct"
    /\ bm.pc = "strategy"
    /\ \E found \in BOOLEAN, resp \in {"ok", "fail"} :
        LET s == Strategies[bm.next]
            r == StrategyResult(s, bm.element_info, found, resp)
            b == [bm EXCEPT !.tried = Append(@,
                                << s, r, StrategyCoordinates(s, bm.element_info,
                                                             found, resp) >>),
                            !.located = @ \/ found]
        IN  bm' = IF r THEN [b EXCEPT !.pc = "done", !.result = "True"]
                  ELSE IF bm.next = Len(Strategies)
                       THEN [b EXCEPT !.pc = "done", !.result = "False"]
                       ELSE [b EXCEPT !.next = @ + 1]
    /\ BmFrame

\* browser_manager.py:453-506  click_element: a string goes to
\* click_element_by_css_selector (515-521), which looks the element up by CSS
\* and calls click_element with the dict it got; a dict without backendNodeId
\* is refused before anything is tried; otherwise the box model is asked for
\* and the mouse events are sent at its centre
click_element ==
    /\ bm.call = "click_element"
    /\ bm.pc = "box_model"
    /\ \E found \in BOOLEAN, box \in {"ok", "fail"} :
        LET info == IF bm.element_info = "selector"
                    THEN IF found THEN "css_handle" ELSE "None"
                    ELSE bm.element_info
        IN  bm' =
              IF info = "None" \/ ~has_backendNodeId(info)
              THEN [bm EXCEPT !.pc = "done", !.result = "False",
                              !.located = info # "None"]
              ELSE IF box = "ok"
                   THEN [bm EXCEPT !.pc = "done", !.result = "True",
                            !.tried = Append(@, << "box_model_mouse", TRUE,
                                                 "element" >>)]
                   ELSE [bm EXCEPT !.pc = "fallback",
                            !.tried = Append(@, << "box_model_mouse", FALSE,
                                                 "none" >>)]
    /\ BmFrame

\* browser_manager.py:480-483 and 510-513  the fallback of click_element:
\* what click_element_with_dom_api returns is returned
click_element_fallback ==
    /\ bm.call = "click_element"
    /\ bm.pc = "fallback"
    /\ \E resp \in {"ok", "fail"} :
        LET r == click_element_with_dom_api(bm.element_info, TRUE, resp)
        IN  bm' = [bm EXCEPT
                     !.pc = "done",
                     !.result = IF r THEN "True" ELSE "False",
                     !.tried = Append(@, << "click_element_with_dom_api", r,
                                            IF r THEN "element" ELSE "none" >>)]
    /\ BmFrame

ClickCalls ==
    { [ call |-> c,
        pc |-> IF c = "click_element" THEN "box_model" ELSE "strategy",
        element_info |-> e, located |-> e # "selector", next |-> 1,
        tried |-> << >>, result |-> "pending" ] :
        c \in {"click_element", "click_element_direct"}, e \in ElementInfos }

\* ------------------------------------------- BrowserManager, on a handle
\* click_element, type_text and get_element_text on the dict find_element
\* returned, for an element that is still on the page or has left it
\* (present) and a connection that answers the commands or does not (answered).

\* browser_manager.py:378-380 and 383  the id of a CSS handle is the id of
\* the element (the lookup script gives one to an element that has none);
\* 313  the id of an XPath handle is made up by _get_element_info and is set
\* on no element of the page
is_dom_id(info) == info = "css_handle"

\* document.getElementById(element_id) of the scripts
getElementById(info, present) == present /\ is_dom_id(info)

\* browser_manager.py:453-513  click_element on a dict: refused without
\* backendNodeId; DOM.getBoxModel by backendNodeId, then the mouse events;
\* click_element_with_dom_api (which goes by getElementById) when there is
\* no box model
click_element_returns(info, present, answered) ==
    IF ~has_backendNodeId(info) THEN FALSE
    ELSE IF present /\ answered THEN TRUE
    ELSE click_element_with_dom_api(info, TRUE,
            IF getElementById(info, present) /\ answered THEN "ok" ELSE "fail")

\* browser_manager.py:453-513
handle_click_element ==
    /\ bm.call = "on_handle"
    /\ bm.pc = "call"
    /\ bm.op = "click_element"
    /\ bm' = [bm EXCEPT
                !.pc = "done",
                !.result = IF click_element_returns(bm.element_info, bm.present,
                                                    bm.answered)
                           THEN "True" ELSE "False"]
    /\ BmFrame

\* browser_manager.py:523-583  the element is clicked for the focus; when
\* the click returned False so does type_text, otherwise the key events are
\* sent (an unanswered command returns None and is not looked at) and True
\* is returned
type_text ==
    /\ bm.call = "on_handle"
    /\ bm.pc = "call"
    /\ bm.op = "type_text"
    /\ bm' = [bm EXCEPT
                !.pc = "done",
                !.result = IF ~has_id(bm.element_info) THEN "False"
                           ELSE IF click_element_returns(bm.element_info,
                                       bm.present, bm.answered)
                           THEN "True" ELSE "False"]
    /\ BmFrame

\* browser_manager.py:687-713  textContent of getElementById(element_id), or
\* '' when there is no such element or the script gave nothing
get_element_text ==
    /\ bm.call = "on_handle"
    /\ bm.pc = "call"
    /\ bm.op = "get_element_text"
    /\ bm' = [bm EXCEPT
                !.pc = "done",
                !.result = IF ~has_id(bm.element_info) THEN ""
                           ELSE IF getElementById(bm.element_info, bm.present)
                                   /\ bm.answered
                           THEN "text" ELSE ""]
    /\ BmFrame

\* the handles find_element returns (browser_manager.py:240-257) and the
\* operations they are handed to
HandleCalls ==
    { [ call |-> "on_handle", pc |-> "call", op |-> o, element_info |-> e,
        present |-> p, answered |-> a, result |-> "pending" ] :
        o \in {"click_element", "type_text", "get_element_text"},
        e \in {"xpath_handle", "css_handle"},
        p \in BOOLEAN, a \in BOOLEAN }

\* ------------------------------------------------- BrowserManager.navigate
\* a navigate that reports a page-load timeout as failure
navigate_on_load_timeoutMutant == "False"

\* browser_manager.py:229-231  the value returned when the page did not get
\* ready within max_wait
navigate_on_load_timeout == "True"

\* browser_manager.py:202-208 and 232-234  Page.navigate is sent: the answer
\* carries a result (accepted), carries none, does not come, or the call
\* raises
navigate_command ==
    /\ bm.call = "navigate"
    /\ bm.pc = "command"
    /\ \E resp \in {"result", "error", "none", "raise"} :
          bm' = IF resp = "result"
                THEN [bm EXCEPT !.pc = "ready_state", !.accepted = TRUE]
                ELSE [bm EXCEPT !.pc = "done", !.result = "False"]
    /\ BmFrame

\* browser_manager.py:209-231  document.readyState is read once a second
\* until it is interactive or complete or max_wait has elapsed; an exception
\* inside the loop (get_current_url) is logged and the loop goes on
navigate_ready_state ==
    /\ bm.call = "navigate"
    /\ bm.pc = "ready_state"
    /\ IF bm.now < bm.timeout
       THEN \E ready_state \in {"loading", "interactive", "complete", "None"},
               raised \in BOOLEAN :
               bm' = IF ready_state \in {"interactive", "complete"} /\ ~raised
                     THEN [bm EXCEPT !.pc = "done", !.result = "True",
                                     !.ready = TRUE]
                     ELSE [bm EXCEPT !.now = @ + 1]
       ELSE bm' = [bm EXCEPT !.pc = "done",
                             !.result = navigate_on_load_timeout]
    /\ BmFrame

NavigateCalls ==
    { [ call |-> "navigate", pc |-> "command", accepted |-> FALSE,
        ready |-> FALSE, now |-> 0, timeout |-> to, result |-> "pending" ] :
        to \in 1..WaitTicks }

\* -------------------------------------------- BrowserManager._send_command
\* browser_manager.py:156-157 and 166-167  the connection is made sure of
\* and the command is written to the socket
send_command_send ==
    /\ bm.call = "_send_command"
    /\ bm.pc = "send"
    /\ \E r \in {"sent", "not_connected", "raise"} :
          bm' = IF r = "sent" THEN [bm EXCEPT !.pc = "select"]
                ELSE [bm EXCEPT !.pc = "done", !.result = "None"]
    /\ BmFrame

\* browser_manager.py:169-195  the receive loop: select waits up to a second
\* for data; the answer with the id of the command is returned, any other
\* message is an event and the loop goes on, an error while receiving breaks
\* the loop.  At most EventsPerTick messages are read before the clock moves.
send_command_select ==
    /\ bm.call = "_send_command"
    /\ bm.pc = "select"
    /\ IF bm.now < bm.timeout
       THEN \E r \in {"response", "event", "recv_error", "no_data"} :
               bm' = CASE r = "response" ->
                            [bm EXCEPT !.pc = "done", !.result = "response"]
                       [] r = "recv_error" ->
                            [bm EXCEPT !.pc = "done", !.result = "None"]
                       [] r = "event" /\ bm.events + 1 < EventsPerTick ->
                            [bm EXCEPT !.events = @ + 1]
                       [] OTHER ->
                            [bm EXCEPT !.now = @ + 1, !.events = 0]
       ELSE bm' = [bm EXCEPT !.pc = "done", !.result = "None"]
    /\ BmFrame

SendCalls ==
    { [ call |-> "_send_command", pc |-> "send", now |-> 0, events |-> 0,
        timeout |-> to, result |-> "pending" ] : to \in 1..WaitTicks }

\* ------------------ BrowserManager.wait_for_element_to_disappear_by_xpath
\* browser_manager.py:1779-1796  the element is looked up every 0.5 s; True
\* when a lookup finds nothing, False when the timeout has elapsed
wait_for_element_to_disappear_by_xpath ==
    /\ bm.call = "wait_for_element_to_disappear_by_xpath"
    /\ bm.pc = "look"
    /\ IF bm.now < bm.timeout
       THEN \E element \in {"element", "None"} :
               bm' = IF element = "None"
                     THEN [bm EXCEPT !.pc = "done", !.result = "True"]
                     ELSE [bm EXCEPT !.now = @ + 1]
       ELSE bm' = [bm EXCEPT !.pc = "done", !.result = "False"]
    /\ BmFrame

DisappearCalls ==
    { [ call |-> "wait_for_element_to_disappear_by_xpath", pc |-> "look",
        now |-> 0, timeout |-> to, result |-> "pending" ] :
        to \in 1..WaitTicks }

\* ------------------------------------------------- initial state and steps
BmInit ==
    /\ entry = "BrowserManager"
    /\ config \in PoeConfigs
    /\ excel = [ncols |-> 1,
                rows |-> [i \in Rows |-> [title |-> Title(i), status |-> BLANK]]]
    /\ fs = [article_txt |-> FALSE, picture_txt |-> FALSE]
    /\ browser = NoBrowser
    /\ pc = "off"
    /\ run = 0
    /\ titles = << >>
    /\ task_indices = << >>
    /\ index = 0
    /\ t = NoTask
    /\ exc = None
    /\ processed = << >>
    /\ marked = NoMarks
    /\ poe = PoeIdle
    /\ util = NoUtil
    /\ save = NoSave
    /\ gen = NoGen
    /\ bm \in FindCalls \cup ClickCalls \cup NavigateCalls \cup SendCalls
                \cup DisappearCalls \cup HandleCalls
    /\ scraper = NoScraper
    /\ reader = NoReader
    /\ qiniu = NoQiniu
    /\ signals = << >>

BmNext ==
    \/ page_element_appears
    \/ find_time_passes
    \/ _find_elements_by_xpath
    \/ _find_element_by_css
    \/ _find_elements_by_css
    \/ click_element_direct
    \/ click_element
    \/ click_element_fallback
    \/ handle_click_element
    \/ type_text
    \/ get_element_text
    \/ navigate_command
    \/ navigate_ready_state
    \/ send_command_send
    \/ send_command_select
    \/ wait_for_element_to_disappear_by_xpath

SpecBrowserManager == BmInit /\ [][BmNext]_vars

\* ================================================== ToutiaoScraper, one call
\* The tabs of the browser: tab 1 is the home page the search was typed into,
\* tab 2 the search-results tab, every tab opened for an article gets the
\* next id.  scraper.current is BrowserManager.current_tab_id (0 for None).
HomeTab == 1
ResultsTab == 2

TabKind(id) ==
    IF id = 0 THEN "None"
    ELSE IF id = HomeTab THEN "home"
    ELSE IF id = ResultsTab THEN "results" ELSE "article"

ScraperFrame ==
    UNCHANGED << entry, config, excel, fs, browser, pc, run, titles,
                 task_indices, index, t, exc, processed, marked, poe, util,
                 save, gen, bm, reader, qiniu, signals >>

\* toutiao_scraper.py:206  the max_pages of the default configuration
max_pages == 3

\* toutiao_scraper.py:311-358  the results tab is looked for and switched
\* to, the results are verified and their links are listed; [] is returned
\* when one of these gives nothing
scr_begin ==
    /\ scraper.call = "search_articles"
    /\ scraper.pc = "begin"
    /\ \E r \in {"ok", "no_switch", "no_results"} :
          scraper' =
             CASE r = "ok" -> [scraper EXCEPT !.pc = "loop",
                                              !.current = ResultsTab]
               [] r = "no_switch" ->
                     [scraper EXCEPT !.pc = "done", !.ended_by = "return",
                                     !.infra_failed = TRUE]
               [] OTHER -> [scraper EXCEPT !.pc = "done", !.ended_by = "return"]
    /\ ScraperFrame

\* toutiao_scraper.py:362  while processed_count < max_count and
\* processed_count < len(result_links)
loop_continues(s) ==
    s.processed_count < s.max_count /\ s.processed_count < s.result_links

\* toutiao_scraper.py:362-384  the head of the article loop: the tab whose
\* URL or title is that of the search results is looked for among
\* get_all_tabs() and switched to; `break` when it is not there or the
\* switch fails.  After the loop, search_articles returns the articles
\* (436 and 300-305): _go_to_next_page is called nowhere.
scr_loop_head ==
    /\ scraper.call = "search_articles"
    /\ scraper.pc = "loop"
    /\ IF loop_continues(scraper)
       THEN \E tabs_ok \in BOOLEAN :
               scraper' =
                  IF tabs_ok /\ ResultsTab \in scraper.tabs
                  THEN [scraper EXCEPT !.pc = "navigate",
                                       !.current = ResultsTab,
                                       !.attempted = @ + 1,
                                       !.tabs_before = scraper.tabs,
                                       !.opened = 0, !.closed = 0]
                  ELSE [scraper EXCEPT !.pc = "done", !.ended_by = "break",
                                       !.infra_failed = @ \/ ~tabs_ok]
       ELSE scraper' = [scraper EXCEPT !.pc = "done",
                                       !.ended_by = "exhausted"]
    /\ ScraperFrame

\* browser_manager.py:950-967 with toutiao_scraper.py:1020-1039
\* `success = open_new_tab(url)` is the pair (created, id); `if success:`
\* tests the pair, and a pair is true whatever it holds
open_new_tab_success(created) == TRUE

\* toutiao_scraper.py:386-392 with _extract_and_navigate_to_article
\* (967-1043): False when the results or the link of result `index` are not
\* found; otherwise Target.createTarget is sent for the article URL.  The
\* new tab is not switched to: current_tab_id and the socket stay where the
\* head of the loop put them (browser_manager.py:950-967, activate=False).
scr_extract_and_navigate ==
    /\ scraper.call = "search_articles"
    /\ scraper.pc = "navigate"
    /\ \E r \in {"no_link", "created", "not_created"} :
          scraper' =
             CASE r = "no_link" ->
                     [scraper EXCEPT !.pc = "loop",
                                     !.processed_count = @ + 1,
                                     !.last_extract = "link_failed"]
               [] r = "created" ->
                     [scraper EXCEPT !.pc = "extract",
                                     !.tabs = @ \cup {scraper.next_id},
                                     !.opened = scraper.next_id,
                                     !.next_id = @ + 1]
               [] OTHER ->
                     IF open_new_tab_success(FALSE)
                     THEN [scraper EXCEPT !.pc = "extract",
                                          !.infra_failed = TRUE]
                     ELSE [scraper EXCEPT !.pc = "loop",
                                          !.processed_count = @ + 1,
                                          !.infra_failed = TRUE,
                                          !.last_extract = "link_failed"]
    /\ ScraperFrame

\* toutiao_scraper.py:394-411 with _extract_article_from_current_page
\* (522-556): title, text and images are read through the session's
\* current tab; the article is kept when its content is long enough
scr_extract_article ==
    /\ scraper.call = "search_articles"
    /\ scraper.pc = "extract"
    /\ \E article_content \in {"article", "None"} :
          scraper' =
             IF article_content # "None"
             THEN [scraper EXCEPT
                     !.pc = "close",
                     !.read_from = TabKind(scraper.current),
                     !.articles = Append(@, TabKind(scraper.current)),
                     !.last_extract = "ok"]
             ELSE [scraper EXCEPT
                     !.pc = "close",
                     !.read_from = TabKind(scraper.current),
                     !.last_extract = "content_failed"]
    /\ ScraperFrame

\* toutiao_scraper.py:413-416 with close_current_tab (browser_manager.py:
\* 912-938): the tab current_tab_id names is closed over HTTP; on status 200
\* the socket is closed and current_tab_id becomes None
scr_close_current_tab ==
    /\ scraper.call = "search_articles"
    /\ scraper.pc = "close"
    /\ \E status_200 \in BOOLEAN :
          scraper' =
             IF scraper.current # 0 /\ status_200
             THEN [scraper EXCEPT !.pc = "switch_back",
                                  !.tabs = @ \ {scraper.current},
                                  !.closed = scraper.current,
                                  !.current = 0]
             ELSE [scraper EXCEPT !.pc = "switch_back",
                                  !.infra_failed = TRUE]
    /\ ScraperFrame

\* toutiao_scraper.py:418-431 with find_tab_by_url (browser_manager.py:
\* 969-979): the tab whose URL holds "so.toutiao.com/search" is switched
\* to and the count goes up; `break` when there is none or the switch fails
scr_switch_back ==
    /\ scraper.call = "search_articles"
    /\ scraper.pc = "switch_back"
    /\ \E switch_ok \in BOOLEAN :
          scraper' =
             IF ResultsTab \notin scraper.tabs
             THEN [scraper EXCEPT !.pc = "done", !.ended_by = "break"]
             ELSE IF switch_ok
                  THEN [scraper EXCEPT !.pc = "loop",
                                       !.current = ResultsTab,
                                       !.processed_count = @ + 1]
                  ELSE [scraper EXCEPT !.pc = "done", !.ended_by = "break",
                                       !.infra_failed = TRUE]
    /\ ScraperFrame

\* search_articles(keyword, max_articles) on a results page with
\* result_links links, the search having opened the results in a new tab
\* or in the tab of the home page
SearchCalls ==
    { [ call |-> "search_articles", pc |-> "begin",
        max_count |-> mc, result_links |-> n,
        tabs |-> IF home THEN {HomeTab, ResultsTab} ELSE {ResultsTab},
        current |-> ResultsTab, next_id |-> ResultsTab + 1,
        processed_count |-> 0, attempted |-> 0, articles |-> << >>,
        tabs_before |-> {}, opened |-> 0, closed |-> 0,
        read_from |-> "None", last_extract |-> "none",
        infra_failed |-> FALSE, ended_by |-> "running",
        pages_visited |-> 1, next_page_attempts |-> 0 ] :
        mc \in 1..MaxArticles, n \in 1..MaxResults, home \in BOOLEAN }

\* --------------------------------- ToutiaoScraper._extract_article_content
\* What the script returns for one selector: None (no such element), a value
\* that is not a string, an exception, or the innerText.  A text is counted
\* in blocks of 50 characters, each block all whitespace (" ") or all
\* visible ("x"), so that the 100 of line 607 is 2 and the 50 of line 538
\* is 1.
CONTENT_MIN == 2

ARTICLE_MIN == 1

Value(kind, text) == [kind |-> kind, text |-> text]

NoneValue == Value("None", << >>)

Str(text) == Value("str", text)

IsText(r) == r.kind = "str"

\* a threshold test that takes the text as it came, blanks included
above_minimumMutant(content) ==
    IsText(content) /\ Len(content.text) > CONTENT_MIN

\* toutiao_scraper.py:607  content and isinstance(content, str) and
\* len(content.strip()) > 100
above_minimum(content) ==
    /\ IsText(content)
    /\ content.text # << >>
    /\ Len(strip(content.text)) > CONTENT_MIN

\* toutiao_scraper.py:596-612  one turn of the loop over the selectors: the
\* text of the selector is returned, stripped, when it is long enough; an
\* exception is logged and the next selector is tried; None after the last
content_next_selector ==
    /\ scraper.call = "_extract_article_content"
    /\ scraper.pc = "selectors"
    /\ scraper' =
          IF scraper.i > Len(scraper.texts)
          THEN [scraper EXCEPT !.pc = "check", !.content = NoneValue]
          ELSE IF above_minimum(scraper.texts[scraper.i])
               THEN [scraper EXCEPT
                       !.pc = "check",
                       !.content = Str(strip(scraper.texts[scraper.i].text)),
                       !.used = scraper.i]
               ELSE [scraper EXCEPT !.i = @ + 1]
    /\ ScraperFrame

\* toutiao_scraper.py:535-551  _extract_article_from_current_page: no
\* content, or content shorter than 50 characters, gives None (the article
\* is skipped); otherwise the article carries the content
content_check ==
    /\ scraper.call = "_extract_article_content"
    /\ scraper.pc = "check"
    /\ scraper' =
          [scraper EXCEPT
             !.pc = "done",
             !.article =
                IF ~IsText(scraper.content)
                   \/ Len(strip(scraper.content.text)) < ARTICLE_MIN
                THEN NoneValue ELSE scraper.content]
    /\ ScraperFrame

\* the texts the selectors of content_containers can yield
SelectorTexts ==
    { NoneValue, Value("number", << >>), Value("raise", << >>),
      Str(<< >>), Str(<< "x", "x" >>), Str(<< " ", "x", "x", " " >>),
      Str(<< "x", "x", "x" >>), Str(<< " ", "x", " ", "x", "x" >>) }

ContentCalls ==
    { [ call |-> "_extract_article_content", pc |-> "selectors",
        texts |-> tx, i |-> 1, used |-> 0, content |-> NoneValue,
        article |-> Value("pending", << >>) ] :
        tx \in {<< >>} \cup [1..MaxSelectors -> SelectorTexts] }

\* ------------------------------------------------- initial state and steps
ScraperInit ==
    /\ entry = "ToutiaoScraper"
    /\ config \in PoeConfigs
    /\ excel = [ncols |-> 1,
                rows |-> [i \in Rows |-> [title |-> Title(i), status |-> BLANK]]]
    /\ fs = [article_txt |-> FALSE, picture_txt |-> FALSE]
    /\ browser = NoBrowser
    /\ pc = "off"
    /\ run = 0
    /\ titles = << >>
    /\ task_indices = << >>
    /\ index = 0
    /\ t = NoTask
    /\ exc = None
    /\ processed = << >>
    /\ marked = NoMarks
    /\ poe = PoeIdle
    /\ util = NoUtil
    /\ save = NoSave
    /\ gen = NoGen
    /\ bm = NoBm
    /\ scraper \in SearchCalls \cup ContentCalls
    /\ reader = NoReader
    /\ qiniu = NoQiniu
    /\ signals = << >>

ScraperNext ==
    \/ scr_begin
    \/ scr_loop_head
    \/ scr_extract_and_navigate
    \/ scr_extract_article
    \/ scr_close_current_tab
    \/ scr_switch_back
    \/ content_next_selector
    \/ content_check

SpecScraper == ScraperInit /\ [][ScraperNext]_vars

\* ================================================================ TitleReader
\* self.df after __init__ (title_reader.py:5-41): rows of a title and a
\* status cell, numbered from 0.  A status cell is blank (pd.NA / NaN) or
\* holds a string; FINISHED stands for the sentinel of line 62 and 68,
\* FAILED for the one of line 72, both spelled as one character.
FINISHED == << "D" >>
FAILED == << "F" >>

StatusCells ==
    { Value("NA", << >>), Str(<< >>), Str(FINISHED), Str(FAILED),
      Str(<< " ", "D", " " >>), Str(<< "x" >>) }

ReaderFrame ==
    UNCHANGED << entry, config, excel, fs, browser, pc, run, titles,
                 task_indices, index, t, exc, processed, marked, poe, util,
                 save, gen, bm, scraper, qiniu, signals >>

\* a comparison with the sentinel that does not trim the cell
row_statusMutant(cell) == IF cell.kind = "str" THEN cell.text ELSE << >>

\* title_reader.py:58-60  '' for a blank cell, str(cell).strip() otherwise
row_status(cell) == IF cell.kind = "str" THEN strip(cell.text) ELSE << >>

\* title_reader.py:57-63  the loop over self.df.iterrows(), from row i on
RECURSIVE pending_loop(_, _, _)
pending_loop(df, i, pending_titles) ==
    IF i > Len(df) THEN pending_titles
    ELSE pending_loop(df, i + 1,
            IF row_status(df[i].status) # FINISHED
            THEN Append(pending_titles, << i - 1, df[i].title >>)
            ELSE pending_titles)

\* title_reader.py:50-64
get_all_pending_titles ==
    /\ reader.pc = "idle"
    /\ reader' = [reader EXCEPT !.result = pending_loop(reader.df, 1, << >>),
                                !.fresh = TRUE]
    /\ ReaderFrame

\* title_reader.py:74-90  self.df.iloc[row_index, 1] = status, then the
\* sheet is saved; an exception (a row index out of range, a file that
\* cannot be written) is printed.  The cell is set before the save.
_update_status(row_index, status, mark) ==
    IF row_index < Len(reader.df)
    THEN [reader EXCEPT !.df[row_index + 1].status = Str(status),
                        !.last_mark[row_index] = mark,
                        !.fresh = FALSE]
    ELSE [reader EXCEPT !.fresh = FALSE]

\* title_reader.py:66-68
mark_finished ==
    /\ reader.pc = "idle"
    /\ \E row_index \in 0..MaxRows :
          reader' = _update_status(row_index, FINISHED, "finished")
    /\ ReaderFrame

\* title_reader.py:70-72
mark_failed ==
    /\ reader.pc = "idle"
    /\ \E row_index \in 0..MaxRows :
          reader' = _update_status(row_index, FAILED, "failed")
    /\ ReaderFrame

Readers ==
    { [ pc |-> "idle", df |-> d,
        last_mark |-> [i \in 0..MaxRows |-> "none"],
        result |-> << >>, fresh |-> FALSE ] :
        d \in UNION { { [i \in 1..n |-> [title |-> Title(i), status |-> st[i]]] :
                          st \in [1..n -> StatusCells] } : n \in 0..MaxRows } }

ReaderInit ==
    /\ entry = "TitleReader"
    /\ config \in PoeConfigs
    /\ excel = [ncols |-> 1,
                rows |-> [i \in Rows |-> [title |-> Title(i), status |-> BLANK]]]
    /\ fs = [article_txt |-> FALSE, picture_txt |-> FALSE]
    /\ browser = NoBrowser
    /\ pc = "off"
    /\ run = 0
    /\ titles = << >>
    /\ task_indices = << >>
    /\ index = 0
    /\ t = NoTask
    /\ exc = None
    /\ processed = << >>
    /\ marked = NoMarks
    /\ poe = PoeIdle
    /\ util = NoUtil
    /\ save = NoSave
    /\ gen = NoGen
    /\ bm = NoBm
    /\ scraper = NoScraper
    /\ reader \in Readers
    /\ qiniu = NoQiniu
    /\ signals = << >>

ReaderNext == get_all_pending_titles \/ mark_finished \/ mark_failed

SpecTitleReader == ReaderInit /\ [][ReaderNext]_vars

\* ====================================================== the waits and loops
\* The loops of the pipeline that wait for the page, each followed to its
\* end: _send_command, _find_element_by_css and
\* wait_for_element_to_disappear_by_xpath of the BrowserManager (above), and
\* the word-count loop of PoeAutomator.generate_content, here without the
\* history the run keeps of it.  A response is << >> (None) or
\* << version, word count >>; two versions are enough to tell a response
\* that changed from one that did not.
LoopResponses(cfg) ==
    { << v, w >> : v \in {1, 2}, w \in WordCounts(cfg) \ {0} }

\* poe_automator.py:341-343 and 358-360  the head of the while loop:
\* check_content_length(None, ...) raises and generate_content returns None
loop_head ==
    /\ poe.pc = "loop_head"
    /\ poe' = IF poe.response_content = << >>
              THEN [poe EXCEPT !.pc = "done", !.result = << >>]
              ELSE IF check_content_length(poe.response_content,
                                           config.min_word_count)
                   THEN [poe EXCEPT !.pc = "done",
                                    !.result = poe.response_content]
                   ELSE [poe EXCEPT !.pc = "loop_send"]
    /\ PoeFrame

\* poe_automator.py:344-346  the supplemental prompt; a failed send breaks
\* the loop
loop_send_message ==
    /\ poe.pc = "loop_send"
    /\ \E sent \in BOOLEAN :
          poe' = IF sent THEN [poe EXCEPT !.pc = "loop_wait", !.now = 0]
                 ELSE [poe EXCEPT !.pc = "done",
                                  !.result = poe.response_content]
    /\ PoeFrame

\* poe_automator.py:348 with wait_for_response (235-263): the stop button
\* is looked for every check_interval until it is gone or the timeout has
\* elapsed; the value returned is not read
loop_wait_for_response ==
    /\ poe.pc = "loop_wait"
    /\ \E is_generating \in BOOLEAN :
          poe' = IF poe.now < GenerationTicks /\ is_generating
                 THEN [poe EXCEPT !.now = @ + 1]
                 ELSE [poe EXCEPT !.pc = "loop_get"]
    /\ PoeFrame

\* poe_automator.py:349-353  the latest response: the loop is left when it
\* is the one already held, and goes round again with the new one otherwise
loop_get_latest_response ==
    /\ poe.pc = "loop_get"
    /\ \E new_content \in {<< >>} \cup LoopResponses(config) :
          poe' = IF new_content = poe.response_content
                 THEN [poe EXCEPT !.pc = "done",
                                  !.result = poe.response_content]
                 ELSE [poe EXCEPT !.pc = "loop_head",
                                  !.response_content = new_content]
    /\ PoeFrame

\* generate_content at line 341, with the first response in hand
PoeLoops ==
    { [ pc |-> "loop_head", response_content |-> r, now |-> 0,
        result |-> << >> ] : r \in LoopResponses(config) }

WaitCalls ==
    SendCalls \cup DisappearCalls
        \cup { c \in FindCalls : c.call = "find_element" /\ c.kind = "css" }

WaitsInit ==
    /\ entry = "waits"
    /\ config \in PoeConfigs
    /\ excel = [ncols |-> 1,
                rows |-> [i \in Rows |-> [title |-> Title(i), status |-> BLANK]]]
    /\ fs = [article_txt |-> FALSE, picture_txt |-> FALSE]
    /\ browser = NoBrowser
    /\ pc = "off"
    /\ run = 0
    /\ titles = << >>
    /\ task_indices = << >>
    /\ index = 0
    /\ t = NoTask
    /\ exc = None
    /\ processed = << >>
    /\ marked = NoMarks
    /\ \/ bm \in WaitCalls /\ poe = PoeIdle
       \/ bm = NoBm /\ poe \in PoeLoops
    /\ util = NoUtil
    /\ save = NoSave
    /\ gen = NoGen
    /\ scraper = NoScraper
    /\ reader = NoReader
    /\ qiniu = NoQiniu
    /\ signals = << >>

WaitsNext ==
    \/ send_command_send
    \/ send_command_select
    \/ page_element_appears
    \/ find_time_passes
    \/ _find_element_by_css
    \/ wait_for_element_to_disappear_by_xpath
    \/ loop_head
    \/ loop_send_message
    \/ loop_wait_for_response
    \/ loop_get_latest_response

\* every loop that can take a step does take one
SpecWaits == WaitsInit /\ [][WaitsNext]_vars /\ WF_vars(WaitsNext)

\* ================================================ _load_titles_from_excel
\* WorkflowThread._load_titles_from_excel and _update_excel_status on any
\* spreadsheet, blank cells in the title column included.

\* the spreadsheets pd.read_excel can return: a one-column sheet has no
\* status cells
LoadSheets ==
    { df \in Sheets :
        df.ncols = 1 => \A i \in Rows : df.rows[i].status = BLANK }

LoadInit ==
    /\ entry = "_load_titles_from_excel"
    /\ config \in { c \in PoeConfigs : TRUE }
    /\ excel \in LoadSheets
    /\ fs = [article_txt |-> FALSE, picture_txt |-> FALSE]
    /\ browser = NoBrowser
    /\ pc = "load"
    /\ run = 1
    /\ titles = << >>
    /\ task_indices = << >>
    /\ index = 0
    /\ t = NoTask
    /\ exc = None
    /\ processed = << >>
    /\ marked = NoMarks
    /\ poe = PoeIdle
    /\ util = NoUtil
    /\ save = NoSave
    /\ gen = NoGen
    /\ bm = NoBm
    /\ scraper = NoScraper
    /\ reader = NoReader
    /\ qiniu = NoQiniu
    /\ signals = << >>

\* workflow_manager.py:72-133  the body of the task loop, up to the point
\* where the outcome of the task is known
task_outcome ==
    /\ pc = "loop"
    /\ index < Len(titles)
    /\ \E success \in BOOLEAN :
          t' = [NoTask EXCEPT !.workflow_success = success]
    /\ processed' = Append(processed, excel_row_index(task_indices, index))
    /\ pc' = "status"
    /\ UNCHANGED << entry, config, excel, fs, browser, run, titles,
                    task_indices, index, exc, marked, poe, util, save, gen,
                    bm, scraper, reader, qiniu, signals >>

LoadNext ==
    \/ _load_titles_from_excel
    \/ task_outcome
    \/ _update_excel_status
    \/ NextTask

SpecLoadTitles == LoadInit /\ [][LoadNext]_vars

\* ======================================== BrowserManager, the tab session
\* current_tab_id and the websocket of one BrowserManager over a sequence of
\* connect, switch_to_tab, switch_to_tab_by_id, close_current_tab and
\* _send_command calls.  Chrome (the tabs it has open, what its HTTP endpoint
\* and its sockets answer) is the environment.
\*   bm.tabs            the page tabs Chrome has open
\*   bm.current_tab_id  self.current_tab_id, 0 for None
\*   bm.ws              self.ws
\*   bm.last            history: the call that returned last

TabIds == 1..MaxTabs

\* self.ws: None, or a WebSocket made for a tab, open or closed
WsNone == [obj |-> "None", tab |-> 0, connected |-> FALSE]
Ws(tab, connected) == [obj |-> "ws", tab |-> tab, connected |-> connected]

\* browser_manager.py:45-47
is_connected(ws) == ws.obj # "None" /\ ws.connected

NoCall == [op |-> "none", result |-> "none", before_tab |-> 0,
           before_ws |-> WsNone, reconnect |-> FALSE]

Returned(op, result, reconnect) ==
    [op |-> op, result |-> result, before_tab |-> bm.current_tab_id,
     before_ws |-> bm.ws, reconnect |-> reconnect]

\* browser_manager.py:111-143  connect: the tab list is fetched over HTTP;
\* current_tab_id becomes the first tab; the socket is made for it.  An
\* exception at any point is logged and False is returned.
\* [ok, current_tab_id, ws] for each thing Chrome can answer
connect_outcomes(s) ==
    { [ok |-> FALSE, current_tab_id |-> s.current_tab_id, ws |-> s.ws] }
    \cup
    { [ok |-> made,
       current_tab_id |-> tab,
       ws |-> IF made THEN Ws(tab, TRUE) ELSE s.ws] :
         tab \in s.tabs, made \in BOOLEAN }

connect ==
    /\ bm.call = "session"
    /\ bm.ws = WsNone
    /\ \E o \in connect_outcomes(bm) :
          bm' = [bm EXCEPT !.current_tab_id = o.current_tab_id,
                           !.ws = o.ws,
                           !.last = Returned("connect",
                                      IF o.ok THEN "True" ELSE "False", FALSE)]
    /\ BmFrame

\* browser_manager.py:862-893  switch_to_tab(tab_index): False when the
\* index is out of range or the list is empty; otherwise current_tab_id is
\* set to the target (871), its webSocketDebuggerUrl is read (874), the old
\* socket is closed (877-878) and the new one made (881).  An exception on
\* the way is logged and False is returned (891-893).
switch_to_tab ==
    /\ bm.call = "session"
    /\ \E r \in {"no_ws_url", "create_fails", "ok"},
          target \in bm.tabs \cup {0} :      \* 0: no tab at tab_index
          bm' =
            CASE target = 0 ->
                   [bm EXCEPT !.last = Returned("switch_to_tab", "False", FALSE)]
              [] r = "no_ws_url" ->
                   [bm EXCEPT !.current_tab_id = target,
                              !.last = Returned("switch_to_tab", "False", FALSE)]
              [] r = "create_fails" ->
                   [bm EXCEPT !.current_tab_id = target,
                              !.ws = IF bm.ws = WsNone THEN WsNone
                                     ELSE Ws(bm.ws.tab, FALSE),
                              !.last = Returned("switch_to_tab", "False", FALSE)]
              [] OTHER ->
                   [bm EXCEPT !.current_tab_id = target,
                              !.ws = Ws(target, TRUE),
                              !.last = Returned("switch_to_tab", "True", FALSE)]
    /\ BmFrame

\* browser_manager.py:1519-1553  switch_to_tab_by_id(tab_id): False when no
\* tab has the id; True at once when it is the current tab and the socket
\* is connected; otherwise the old socket is closed (1535-1536), the new
\* one is made (1539-1540) and then current_tab_id is set (1541).  An
\* exception on the way is logged and False is returned.
switch_to_tab_by_id ==
    /\ bm.call = "session"
    /\ \E tab_id \in TabIds, made \in BOOLEAN :
          bm' =
            IF tab_id \notin bm.tabs
            THEN [bm EXCEPT !.last = Returned("switch_to_tab_by_id", "False",
                                              FALSE)]
            ELSE IF bm.current_tab_id = tab_id /\ is_connected(bm.ws)
            THEN [bm EXCEPT !.last = Returned("switch_to_tab_by_id", "True",
                                              FALSE)]
            ELSE IF ~made
            THEN [bm EXCEPT !.ws = IF bm.ws = WsNone THEN WsNone
                                   ELSE Ws(bm.ws.tab, FALSE),
                            !.last = Returned("switch_to_tab_by_id", "False",
                                              FALSE)]
            ELSE [bm EXCEPT !.ws = Ws(tab_id, TRUE),
                            !.current_tab_id = tab_id,
                            !.last = Returned("switch_to_tab_by_id", "True",
                                              FALSE)]
    /\ BmFrame

\* browser_manager.py:912-938  close_current_tab: False without a current
\* tab; the tab is closed over HTTP; on status 200 the socket is closed,
\* self.ws and current_tab_id become None
close_current_tab ==
    /\ bm.call = "session"
    /\ \E status_200 \in BOOLEAN :
          bm' =
            IF bm.current_tab_id # 0 /\ status_200
                  /\ bm.current_tab_id \in bm.tabs
            THEN [bm EXCEPT !.tabs = @ \ {bm.current_tab_id},
                            !.ws = WsNone,
                            !.current_tab_id = 0,
                            !.last = Returned("close_current_tab", "True",
                                              FALSE)]
            ELSE [bm EXCEPT !.last = Returned("close_current_tab", "False",
                                              FALSE)]
    /\ BmFrame

\* browser_manager.py:145-152  _ensure_connection: connect() is called when
\* self.ws is None, and only then
needs_reconnect(ws) == ws = WsNone

\* browser_manager.py:154-200  _send_command: None when the connection
\* could not be made sure of; the command is written to self.ws, which
\* raises on a closed socket (logged, None); the answer or None
session_send_command ==
    /\ bm.call = "session"
    /\ IF needs_reconnect(bm.ws)
       THEN \E o \in connect_outcomes(bm), answered \in BOOLEAN :
               bm' = [bm EXCEPT
                        !.current_tab_id = o.current_tab_id,
                        !.ws = o.ws,
                        !.last = Returned("_send_command",
                                   IF o.ok /\ answered THEN "response"
                                   ELSE "None", TRUE)]
       ELSE \E answered \in BOOLEAN :
               bm' = [bm EXCEPT
                        !.last = Returned("_send_command",
                                   IF is_connected(bm.ws) /\ answered
                                   THEN "response" ELSE "None", FALSE)]
    /\ BmFrame

\* Chrome drops the socket of the session
browser_drops_connection ==
    /\ bm.call = "session"
    /\ is_connected(bm.ws)
    /\ bm' = [bm EXCEPT !.ws = Ws(bm.ws.tab, FALSE), !.last = NoCall]
    /\ BmFrame

\* a tab is opened in Chrome (by a page, or by Target.createTarget)
browser_opens_tab ==
    /\ bm.call = "session"
    /\ \E tab \in TabIds \ bm.tabs :
          bm' = [bm EXCEPT !.tabs = @ \cup {tab}, !.last = NoCall]
    /\ BmFrame

\* a BrowserManager that has not connected yet, Chrome running with one tab
Sessions ==
    { [ call |-> "session", pc |-> "running", tabs |-> {1},
        current_tab_id |-> 0, ws |-> WsNone, last |-> NoCall ] }

SessionInit ==
    /\ entry = "session"
    /\ config \in PoeConfigs
    /\ excel = [ncols |-> 1,
                rows |-> [i \in Rows |-> [title |-> Title(i), status |-> BLANK]]]
    /\ fs = [article_txt |-> FALSE, picture_txt |-> FALSE]
    /\ browser = NoBrowser
    /\ pc = "off"
    /\ run = 0
    /\ titles = << >>
    /\ task_indices = << >>
    /\ index = 0
    /\ t = NoTask
    /\ exc = None
    /\ processed = << >>
    /\ marked = NoMarks
    /\ poe = PoeIdle
    /\ util = NoUtil
    /\ save = NoSave
    /\ gen = NoGen
    /\ bm \in Sessions
    /\ scraper = NoScraper
    /\ reader = NoReader
    /\ qiniu = NoQiniu
    /\ signals = << >>

SessionNext ==
    \/ connect
    \/ switch_to_tab
    \/ switch_to_tab_by_id
    \/ close_current_tab
    \/ session_send_command
    \/ browser_drops_connection
    \/ browser_opens_tab

SpecSession == SessionInit /\ [][SessionNext]_vars

\* ============================================================ QiniuConfig
\* One QiniuConfig object (modules/qiniu_config.py) and the calls made on
\* it.  A key is "" or a non-empty string.

QiniuFrame ==
    UNCHANGED << entry, config, excel, fs, browser, pc, run, titles,
                 task_indices, index, t, exc, processed, marked, poe, util,
                 save, gen, bm, scraper, reader, signals >>

Keys == {"", "k"}

\* qiniu_config.py:14-20
default_config ==
    [access_key |-> "", secret_key |-> "", bucket_name |-> "",
     enabled |-> FALSE]

QiniuContents ==
    [access_key : Keys, secret_key : Keys, bucket_name : Keys,
     enabled : BOOLEAN]

\* the configuration file when the object is created: missing, not
\* readable as JSON, or holding a configuration
QiniuFiles ==
    { [state |-> "missing", content |-> default_config],
      [state |-> "unreadable", content |-> default_config] }
    \cup { [state |-> "ok", content |-> c] : c \in QiniuContents }

\* qiniu_config.py:12-38  load_config: [config, load_error]
load_config(file) ==
    IF file.state = "ok"
    THEN [config |-> file.content, load_error |-> FALSE]
    ELSE [config |-> default_config, load_error |-> TRUE]

\* qiniu_config.py:65-86  validate()[0]
validate(q) ==
    /\ ~q.load_error
    /\ q.config.enabled
    /\ q.config.access_key # ""
    /\ q.config.secret_key # ""
    /\ q.config.bucket_name # ""

\* qiniu_config.py:88-91
is_enabled(q) == validate(q)

\* qiniu_config.py:50-59 with save_config (40-48): the configuration is
\* updated, then written; the result is that of the write
set_config ==
    /\ qiniu.pc = "idle"
    /\ \E c \in QiniuContents, saved \in BOOLEAN :
          qiniu' = [qiniu EXCEPT
                      !.config = c,
                      !.last = [op |-> "set_config", args |-> c,
                                result |-> saved]]
    /\ QiniuFrame

\* qiniu_config.py:114-123  enable: with the three keys set, enabled
\* becomes True and the configuration is written; False otherwise
enable ==
    /\ qiniu.pc = "idle"
    /\ \E saved \in BOOLEAN :
          qiniu' =
             IF /\ qiniu.config.access_key # ""
                /\ qiniu.config.secret_key # ""
                /\ qiniu.config.bucket_name # ""
             THEN [qiniu EXCEPT
                     !.config.enabled = TRUE,
                     !.last = [op |-> "enable", args |-> default_config,
                               result |-> saved]]
             ELSE [qiniu EXCEPT
                     !.last = [op |-> "enable", args |-> default_config,
                               result |-> FALSE]]
    /\ QiniuFrame

\* qiniu_config.py:109-112
disable ==
    /\ qiniu.pc = "idle"
    /\ \E saved \in BOOLEAN :
          qiniu' = [qiniu EXCEPT
                      !.config.enabled = FALSE,
                      !.last = [op |-> "disable", args |-> default_config,
                                result |-> saved]]
    /\ QiniuFrame

\* qiniu_config.py:7-10  __init__ on each configuration file
QiniuConfigs ==
    { [ pc |-> "idle", file |-> f.state,
        config |-> load_config(f).config,
        load_error |-> load_config(f).load_error,
        last |-> [op |-> "__init__", args |-> default_config,
                  result |-> TRUE] ] : f \in QiniuFiles }

QiniuInit ==
    /\ entry = "QiniuConfig"
    /\ config \in PoeConfigs
    /\ excel = [ncols |-> 1,
                rows |-> [i \in Rows |-> [title |-> Title(i), status |-> BLANK]]]
    /\ fs = [article_txt |-> FALSE, picture_txt |-> FALSE]
    /\ browser = NoBrowser
    /\ pc = "off"
    /\ run = 0
    /\ titles = << >>
    /\ task_indices = << >>
    /\ index = 0
    /\ t = NoTask
    /\ exc = None
    /\ processed = << >>
    /\ marked = NoMarks
    /\ poe = PoeIdle
    /\ util = NoUtil
    /\ save = NoSave
    /\ gen = NoGen
    /\ bm = NoBm
    /\ scraper = NoScraper
    /\ reader = NoReader
    /\ qiniu \in QiniuConfigs
    /\ signals = << >>

QiniuNext == set_config \/ enable \/ disable

SpecQiniuConfig == QiniuInit /\ [][QiniuNext]_vars

\* ================================ BrowserManager._send_command, with ids
\* The commands one BrowserManager sends one after the other over its
\* socket.  Chrome answers a command at any later time or never, and sends
\* events in between.  A message is the id it carries, 0 for an event
\* (which has no id).
\*   bm.message_id   self.message_id
\*   bm.unanswered   ids of the commands written to the socket whose answer
\*                   Chrome has not sent yet
\*   bm.sent         history: the ids given to commands, in order
\*   bm.skipped      history: the messages the running call read and passed
\*   bm.last         history: the call that returned last

EventMessage == 0

\* a test that takes any answer for the answer awaited
is_awaited_responseMutant(response_id, message_id) ==
    response_id # EventMessage

\* browser_manager.py:182  response_data.get('id') == message_id
is_awaited_response(response_id, message_id) == response_id = message_id

\* browser_manager.py:49-51
_get_next_message_id(message_id) == message_id + 1

\* browser_manager.py:154-167  _send_command up to the write: the next id
\* is taken and the command is written to the socket; a failed
\* _ensure_connection returns None before an id is taken, an exception of
\* ws.send returns None after
command_send ==
    /\ bm.call = "commands"
    /\ bm.pc = "idle"
    /\ bm.message_id < MaxCommands
    /\ \E r \in {"sent", "not_connected", "raise"} :
          LET id == _get_next_message_id(bm.message_id)
          IN  bm' =
                CASE r = "not_connected" ->
                       [bm EXCEPT !.last = [id |-> 0, result |-> "None",
                                            response_id |-> 0,
                                            why |-> "not_connected"]]
                  [] r = "raise" ->
                       [bm EXCEPT !.message_id = id,
                                  !.sent = Append(@, id),
                                  !.last = [id |-> id, result |-> "None",
                                            response_id |-> 0,
                                            why |-> "send_error"]]
                  [] OTHER ->
                       [bm EXCEPT !.message_id = id,
                                  !.sent = Append(@, id),
                                  !.unanswered = @ \cup {id},
                                  !.pc = "select", !.now = 0, !.events = 0,
                                  !.skipped = {}]
    /\ BmFrame

\* browser_manager.py:169-196  the receive loop of the command with id
\* bm.message_id: while the 15 s have not elapsed, select waits up to a
\* second; a message that is the awaited answer is returned; any other
\* message (an event, the answer to an earlier command) is passed; an
\* exception while receiving or parsing breaks the loop; after the loop
\* None is returned.  At most EventsPerTick messages are read before the
\* clock moves.
command_select ==
    /\ bm.call = "commands"
    /\ bm.pc = "select"
    /\ IF bm.now < bm.timeout
       THEN \E m \in {"message", "recv_error", "no_data"},
               response_id \in bm.unanswered \cup {EventMessage} :
               bm' =
                 CASE m = "recv_error" ->
                        [bm EXCEPT !.pc = "idle",
                                   !.last = [id |-> bm.message_id,
                                             result |-> "None",
                                             response_id |-> 0,
                                             why |-> "recv_error"]]
                   [] m = "message"
                        /\ is_awaited_response(response_id, bm.message_id) ->
                        [bm EXCEPT !.pc = "idle",
                                   !.unanswered = @ \ {response_id},
                                   !.last = [id |-> bm.message_id,
                                             result |-> "response",
                                             response_id |-> response_id,
                                             why |-> "answered"]]
                   [] m = "message" /\ bm.events + 1 < EventsPerTick ->
                        [bm EXCEPT !.unanswered = @ \ {response_id},
                                   !.skipped = @ \cup {response_id},
                                   !.events = @ + 1]
                   [] m = "message" ->
                        [bm EXCEPT !.unanswered = @ \ {response_id},
                                   !.skipped = @ \cup {response_id},
                                   !.now = @ + 1, !.events = 0]
                   [] OTHER ->
                        [bm EXCEPT !.now = @ + 1, !.events = 0]
       ELSE bm' = [bm EXCEPT !.pc = "idle",
                             !.last = [id |-> bm.message_id,
                                       result |-> "None",
                                       response_id |-> 0,
                                       why |-> "timeout"]]
    /\ BmFrame

\* browser_manager.py:28  a new BrowserManager: message_id = 0
CommandSessions ==
    { [ call |-> "commands", pc |-> "idle", message_id |-> 0,
        unanswered |-> {}, sent |-> << >>, skipped |-> {},
        now |-> 0, events |-> 0, timeout |-> to,
        last |-> [id |-> 0, result |-> "none", response_id |-> 0,
                  why |-> "none"] ] : to \in 1..WaitTicks }

CommandsInit ==
    /\ entry = "_send_command"
    /\ config \in PoeConfigs
    /\ excel = [ncols |-> 1,
                rows |-> [i \in Rows |-> [title |-> Title(i), status |-> BLANK]]]
    /\ fs = [article_txt |-> FALSE, picture_txt |-> FALSE]
    /\ browser = NoBrowser
    /\ pc = "off"
    /\ run = 0
    /\ titles = << >>
    /\ task_indices = << >>
    /\ index = 0
    /\ t = NoTask
    /\ exc = None
    /\ processed = << >>
    /\ marked = NoMarks
    /\ poe = PoeIdle
    /\ util = NoUtil
    /\ save = NoSave
    /\ gen = NoGen
    /\ bm \in CommandSessions
    /\ scraper = NoScraper
    /\ reader = NoReader
    /\ qiniu = NoQiniu
    /\ signals = << >>

CommandsNext == command_send \/ command_select

SpecCommands == CommandsInit /\ [][CommandsNext]_vars

\* ================================================================ claims
Range(q) == {q[i] : i \in DOMAIN q}
Has(trace, e) == \E i \in DOMAIN trace : trace[i] = e
Count(trace, S) == Cardinality({i \in DOMAIN trace : trace[i] \in S})
Min == config.min_word_count

\* the state right after _load_titles_from_excel of a later run: `marked`
\* still holds what earlier runs wrote, and nothing else has touched the sheet
LaterRunLoaded == run >= 2 /\ pc = "loop" /\ index = 0

\* C1 (as stated): a row that _update_excel_status marked completed or failed
\* is not loaded as pending by a later run over the unchanged spreadsheet.
C1_TerminalRowsNotReloaded ==
    LaterRunLoaded =>
        \A row \in DOMAIN marked :
            marked[row] \in {STATUS_COMPLETED, STATUS_FAILED}
                => row \notin Range(task_indices)

\* C1 (amended): a row that _update_excel_status marked completed is not
\* loaded as pending by a later run over the unchanged spreadsheet; a row
\* marked failed is loaded again.
C1_CompletedRowsNotReloaded ==
    LaterRunLoaded =>
        \A row \in DOMAIN marked :
            /\ marked[row] = STATUS_COMPLETED => row \notin Range(task_indices)
            /\ marked[row] = STATUS_FAILED => row \in Range(task_indices)

C1_Witness ==
    /\ LaterRunLoaded
    /\ \E row \in DOMAIN marked : marked[row] = STATUS_COMPLETED
    /\ \E row \in DOMAIN marked : marked[row] = STATUS_FAILED

StatusEvents == {"status_completed", "status_failed", "status_not_written"}

\* C2: when the loop body of a task is left, _update_excel_status has been
\* called exactly once for the task, on every path through the body; and no
\* spreadsheet row is begun twice in one run.
C2_StatusUpdatedOncePerTask ==
    /\ pc = "next" => Count(t.trace, StatusEvents) = 1
    /\ \A i, j \in DOMAIN processed : i # j => processed[i] # processed[j]

\* C3: when the scraper reports failure, generation is skipped and the task
\* is recorded as failed in the spreadsheet before the next task.
C3_ScrapeFailureRecordedFailed ==
    (pc = "next" /\ Has(t.trace, "scrape_failed")) =>
        /\ ~Has(t.trace, "navigate")
        /\ Has(t.trace, "status_failed")
        /\ excel.rows[excel_row_index(task_indices, index) + 1].status
              = STATUS_FAILED

C5_ContinuationOnlyBelowMinimum ==
    /\ t.cont_sent > 0 => (t.first # << >> /\ t.first[1] < Min)
    /\ (pc = "save" /\ t.first # << >> /\ t.first[1] >= Min) =>
          (t.cont_sent = 0 /\ t.content = t.first)
    /\ poe.cont_sent > 0 => (poe.first # << >> /\ poe.first[2] < Min)
    /\ (poe.returned /\ poe.first # << >> /\ poe.first[2] >= Min) =>
          (poe.cont_sent = 0 /\ poe.result = poe.first)

C5_Witness ==
    /\ pc = "save"
    /\ config.continue_prompt # ""
    /\ t.first = << Min >>
    /\ t.content = t.first
    /\ t.cont_sent = 0

GenerationFailures ==
    {"navigation", "prompt_send", "generation_timeout",
     "continue_prompt_send", "continue_generation_timeout"}

\* C6: in the initial round and in the continuation round alike, a
\* navigation failure, a prompt-send failure or a generation timeout makes
\* the automator report no article, and the task is recorded as failed,
\* never as completed.
C6_GenerationFailureFailsTask ==
    /\ (pc \in {"save", "status", "next"}
          /\ t.failures \cap GenerationFailures # {}) =>
          (pc # "save" /\ ~t.workflow_success /\ ~Has(t.trace, "status_completed"))
    /\ (poe.returned /\ poe.failures \cap GenerationFailures # {}) =>
          poe.result = << >>

C8_EveryLoadedTaskAttempted ==
    (pc = "finished" /\ exc \notin {"launch", "scraper"}) =>
        Len(processed) = Len(titles)

\* C9: on every way a run ends the teardown has closed the websocket and
\* terminated the Chrome process, also when closing the connection fails.
C9_TeardownOnEveryEnd ==
    pc = "finished" =>
        /\ browser.ws = None /\ ~browser.connected
        /\ browser.chrome_process = None /\ ~browser.running

ScrapeEvents == {"scrape_ok", "scrape_failed", "scrape_raised"}
GenerationEvents ==
    {"navigate", "compose_navigate", "attached", "attach_failed",
     "attach_raised", "prompt_sent", "generation_complete", "response",
     "continue_prompt", "continue_complete", "continue_response", "generated"}
AssemblyEvents == {"insert_images", "write_file"}

SessionInUse == pc \notin {"off", "launch", "except", "cleanup", "finished"}

\* C12: at most one browser session is live, and nothing the user can do
\* during a run (launch_utility_browser in particular) creates a second
\* session or destroys the session the running workflow is using.
C12_SingleLiveSession ==
    /\ ~(browser.running /\ util.chrome)
    /\ SessionInUse => (browser.running /\ ~util.chrome)

\* C13: a task is marked completed only if its Markdown file was written
\* during this run: when _update_excel_status is called with the completed
\* status, the _save_article before it wrote the file.
C13_CompletedOnlyIfFileWritten ==
    /\ (pc = "status" /\ t.workflow_success) => t.saved
    /\ Has(t.trace, "status_completed") => t.saved

\* the positions of the title whose character is in the set Allowed
KeptPositions(title, Allowed) == {i \in DOMAIN title : title[i] \in Allowed}

\* the j-th position of P in increasing order
Nth(P, j) == CHOOSE i \in P : Cardinality({k \in P : k <= i}) = j

\* the characters of the sanitized title, read back from the file name
SanitizedPart(name) == SubSeq(name, 3, Len(name) - 1)

\* C14 (as stated): the file is <save_path>/<sanitized_title>.md where the
\* sanitized title keeps, in order, exactly the characters of the title that
\* are alphanumeric, space, dash or underscore.
C14_FileNameKeepsDash ==
    save.pc \in {"pictures", "write", "done"} =>
        LET kept == KeptPositions(save.title, {"a", "7", " ", "-", "_"})
            name == SanitizedPart(save.filename)
        IN  /\ save.filename[1] = "save_path" /\ save.filename[2] = "/"
            /\ save.filename[Len(save.filename)] = ".md"
            /\ Len(name) = Cardinality(kept)
            /\ \A j \in DOMAIN name : name[j] = save.title[Nth(kept, j)]

\* C14 (amended): the sanitized title keeps, in order, exactly the
\* characters of the title that are alphanumeric, space or underscore, drops
\* every other character (a dash too), and then loses its trailing spaces.
C14_FileNameDropsDash ==
    save.pc \in {"pictures", "write", "done"} =>
        LET kept == KeptPositions(save.title, {"a", "7", " ", "_"})
            name == SanitizedPart(save.filename)
        IN  /\ save.filename[1] = "save_path" /\ save.filename[2] = "/"
            /\ save.filename[Len(save.filename)] = ".md"
            /\ Len(name) <= Cardinality(kept)
            /\ \A j \in DOMAIN name : name[j] = save.title[Nth(kept, j)]
            /\ \A j \in (Len(name) + 1)..Cardinality(kept) :
                  save.title[Nth(kept, j)] = " "
            /\ name # << >> => name[Len(name)] # " "

C14_Witness ==
    /\ save.pc = "done"
    /\ save.title = << "a", "-", "7" >>
    /\ save.filename = << "save_path", "/", "a", "7", ".md" >>

\* the article handed to _save_article and the article it wrote, as lines
InLines == split(save.article)
OutLines == split(save.content)
Inserted == save.pc \in {"write", "done"} /\ save.picture_lines # << >>

HeadingPositions(ls) == {i \in DOMAIN ls : IsLevel2Heading(ls[i])}
NonEmpty(ls) == SelectSeq(ls, LAMBDA l : l # << >>)

\* C15: with N level-2 headings and M > N image lines, the i-th heading is
\* followed by the i-th image (i = 1..N) and the other M - N images come, in
\* their order, after a single trailing heading at the end of the document.
C15_LeftoverImagesUnderTrailingHeading ==
    LET H == HeadingPositions(InLines)
        K == HeadingPositions(OutLines)
        N == Cardinality(H)
        M == Len(save.picture_lines)
    IN  (Inserted /\ M > N) =>
          /\ Cardinality(K) = N + 1
          /\ \A i \in 1..N :
                /\ OutLines[Nth(K, i)] = InLines[Nth(H, i)]
                /\ NonEmpty(SubSeq(OutLines, Nth(K, i) + 1, Nth(K, i + 1) - 1))
                      # << >>
                /\ NonEmpty(SubSeq(OutLines, Nth(K, i) + 1, Nth(K, i + 1) - 1))[1]
                      = save.picture_lines[i]
                /\ OutLines[Nth(K, i) + 2] = save.picture_lines[i]
          /\ OutLines[Nth(K, N + 1)] = RelatedImages
          /\ NonEmpty(SubSeq(OutLines, Nth(K, N + 1) + 1, Len(OutLines)))
                = SubSeq(save.picture_lines, N + 1, M)

C15_Witness ==
    /\ save.pc = "done" /\ save.ok
    /\ Len(save.picture_lines) = 3
    /\ Cardinality(HeadingPositions(InLines)) = 1
    /\ Len(InLines) = 3
    /\ IsLevel2Heading(InLines[2])

\* C16 (as stated): with at least one image every level-2 heading of the
\* document is followed by an image, heading k by image ((k-1) mod M) + 1.
C16_EveryHeadingGetsImageCycling ==
    LET H == HeadingPositions(InLines)
        K == HeadingPositions(OutLines)
        M == Len(save.picture_lines)
    IN  Inserted =>
          \A k \in 1..Cardinality(H) :
              /\ Nth(K, k) + 2 <= Len(OutLines)
              /\ OutLines[Nth(K, k) + 2] = save.picture_lines[((k - 1) % M) + 1]

\* C16 (amended): with M >= 1 images, heading k of the document is followed
\* by an empty line, image k and an empty line for k <= M; a heading after
\* the M-th receives no image: what follows it is what followed it in the
\* document.
C16_FirstHeadingsGetImagesNoCycling ==
    LET H == HeadingPositions(InLines)
        K == HeadingPositions(OutLines)
        M == Len(save.picture_lines)
    IN  Inserted =>
          /\ Cardinality(K) >= Cardinality(H)
          /\ \A k \in 1..Cardinality(H) :
                /\ OutLines[Nth(K, k)] = InLines[Nth(H, k)]
                /\ k <= M =>
                      SubSeq(OutLines, Nth(K, k) + 1, Nth(K, k) + 3)
                         = << << >>, save.picture_lines[k], << >> >>
                /\ k > M =>
                      IF Nth(H, k) < Len(InLines)
                      THEN /\ Nth(K, k) < Len(OutLines)
                           /\ OutLines[Nth(K, k) + 1] = InLines[Nth(H, k) + 1]
                      ELSE Nth(K, k) = Len(OutLines)

C16_Witness ==
    /\ save.pc = "done" /\ save.ok
    /\ Len(save.picture_lines) = 1
    /\ Cardinality(HeadingPositions(InLines)) = 2
    /\ Len(InLines) = 3
    /\ OutLines[Len(OutLines)] = << "x" >>

\* the attachment of the task has been determined
AttachmentChosen == Has(t.trace, "attachment")
CustomUsable ==
    config.enable_custom_attachment /\ config.custom_attachment_path = "custom"
ScrapedUsable == config.enable_article_collect /\ fs.article_txt

\* C17 (as stated): the custom attachment is used whenever it is enabled and
\* its file exists; otherwise article.txt is used whenever article scraping
\* is enabled and the file exists, also when the custom attachment is enabled
\* with an empty or missing path; only otherwise is there no attachment.
C17_AttachmentPrecedenceWithFallback ==
    (AttachmentChosen /\ pc = "generate") =>
        /\ CustomUsable => t.article_to_upload = "custom"
        /\ (~CustomUsable /\ ScrapedUsable) => t.article_to_upload = "article.txt"
        /\ (~CustomUsable /\ ~ScrapedUsable) => t.article_to_upload = None

\* C17 (amended): the custom attachment is used whenever it is enabled and
\* its file exists; when it is enabled and its path is empty or missing there
\* is no attachment, whatever was scraped; when it is disabled article.txt is
\* used if article scraping is enabled and the file exists; otherwise there
\* is no attachment.
C17_AttachmentPrecedenceNoFallback ==
    (AttachmentChosen /\ pc = "generate") =>
        /\ CustomUsable => t.article_to_upload = "custom"
        /\ (config.enable_custom_attachment /\ ~CustomUsable) =>
              t.article_to_upload = None
        /\ (~config.enable_custom_attachment /\ ScrapedUsable) =>
              t.article_to_upload = "article.txt"
        /\ (~config.enable_custom_attachment /\ ~ScrapedUsable) =>
              t.article_to_upload = None

C17_Witness ==
    /\ AttachmentChosen /\ pc = "generate"
    /\ config.enable_custom_attachment
    /\ config.custom_attachment_path = "missing"
    /\ ScrapedUsable
    /\ t.article_to_upload = None

\* C18: staging data never leaks between tasks: images are inserted and
\* article.txt is attached only if this task's own scrape produced them; with
\* image collection disabled no image is inserted into the saved article,
\* whatever an earlier task or run left in picture.txt.
C18_NoStagingLeak ==
    /\ (~config.enable_image_collect) => ~Has(t.trace, "insert_images")
    /\ Has(t.trace, "insert_images") => Has(t.trace, "scrape_ok")
    /\ t.article_to_upload = "article.txt" => Has(t.trace, "scrape_ok")

\* the first-round states of the generation automator, as trace events
NavigatedEvents == {"navigate", "compose_navigate"}
AttachEvents == {"attached", "attach_failed", "attach_raised"}
Before(trace, A, B) ==
    \A j \in DOMAIN trace : trace[j] \in B =>
        \E i \in 1..(j - 1) : trace[i] \in A

\* C19: in the first round the automator goes through Navigated,
\* (FileAttached), PromptSent, Generating, Complete, ResponseExtracted in
\* that order and revisits none: the chat URL is navigated to once per task,
\* the prompt is sent only after the chat input was found following the
\* navigation, and the response is extracted only after the wait reported
\* completion.
C19_AutomatorStatesInOrderOnce ==
    /\ Count(t.trace, NavigatedEvents) <= 1
    /\ Count(t.trace, AttachEvents) <= 1
    /\ Count(t.trace, {"prompt_sent"}) <= 1
    /\ Count(t.trace, {"generation_complete"}) <= 1
    /\ Count(t.trace, {"response"}) <= 1
    /\ Before(t.trace, NavigatedEvents, AttachEvents \cup {"prompt_sent"})
    /\ Before(t.trace, {"prompt_sent"}, {"generation_complete"})
    /\ Before(t.trace, {"generation_complete"}, {"response"})
    /\ \A i, j \in DOMAIN t.trace :
          (t.trace[i] = "prompt_sent" /\ t.trace[j] \in AttachEvents) => j < i

\* the control appeared within the grace window that started with the call
AppearedInGrace == gen.appeared_at # -1 /\ gen.appeared_at < GraceTicks

\* C20: if the stop control has not appeared by the end of the grace window
\* the call reports completion; if it appears at any time within the grace
\* window the call reports completion only once the control has gone, and
\* reports failure if the control is still there when the generation
\* timeout expires.
C20_CompletionOnlyAfterControlGone ==
    (gen.pc = "done" /\ gen.selector) =>
        /\ (~AppearedInGrace) => gen.result
        /\ (AppearedInGrace /\ gen.result) =>
              (gen.gone_at # -1 /\ gen.gone_at <= gen.returned_at)
        /\ (AppearedInGrace /\ ~gen.result) =>
              /\ gen.found_at # -1
              /\ gen.returned_at >= gen.found_at + GenerationTicks
              /\ (gen.gone_at = -1 \/ gen.gone_at >= gen.returned_at)

\* --------------------------------------------------------------------- C21
\* C21: find_element and find_elements, for CSS and for XPath selectors
\* alike, keep polling until the selector resolves or the timeout elapses:
\* when the lookup has returned and every command it sent was answered, an
\* element that came onto the page before the timeout is what it returned;
\* and what it returns is an element, None, a list or an empty list, never
\* an exception.
FindReturned ==
    /\ bm.call \in {"find_element", "find_elements"}
    /\ bm.pc = "done"

C21_ElementBeforeTimeoutIsReturned ==
    FindReturned =>
        /\ bm.result \in {"element", "None", "[element]", "[]"}
        /\ (~bm.lost /\ bm.present /\ bm.appeared_at < bm.timeout)
              => bm.result \in {"element", "[element]"}

\* --------------------------------------------------------------------- C22
\* C22: the multi-strategy click tries its strategies in a fixed order,
\* stops at the first that succeeds and returns success if any succeeds
\* (also when only the last one does); for an element that was located it
\* returns failure only when every strategy was tried and failed.
ClickReturned ==
    /\ bm.call \in {"click_element", "click_element_direct"}
    /\ bm.pc = "done"

StrategiesOf(call) ==
    IF call = "click_element_direct" THEN Strategies
    ELSE << "box_model_mouse", "click_element_with_dom_api" >>

C22_ClickFallbackChain ==
    ClickReturned =>
        /\ Len(bm.tried) <= Len(StrategiesOf(bm.call))
        /\ \A i \in DOMAIN bm.tried :
              /\ bm.tried[i][1] = StrategiesOf(bm.call)[i]
              /\ i < Len(bm.tried) => ~bm.tried[i][2]
        /\ bm.result = "True" <=> \E i \in DOMAIN bm.tried : bm.tried[i][2]
        /\ (bm.result = "False" /\ bm.located)
              => Len(bm.tried) = Len(StrategiesOf(bm.call))

\* --------------------------------------------------------------------- C23
\* C23: navigate(url) does not treat a page-load timeout as failure: it
\* returns true whenever the Page.navigate command was accepted, also when
\* document.readyState never became interactive or complete within the wait
\* bound, and false only when the command itself failed or raised.
C23_NavigateTrueIffAccepted ==
    (bm.call = "navigate" /\ bm.pc = "done")
        => (bm.result = "True" <=> bm.accepted)

\* the command was accepted, the page never got ready, the wait ran out
C23_Witness ==
    /\ bm.call = "navigate"
    /\ bm.pc = "done"
    /\ bm.accepted
    /\ ~bm.ready
    /\ bm.now = bm.timeout
    /\ bm.result = "True"

\* --------------------------------------------------------------------- C24
\* C24: in the scraper's article loop, after a search result that opened a
\* new article tab has been processed and a tab has been closed, the open
\* tabs are the ones open before the article tab was opened: the tab closed
\* is the article tab opened for this result, not the search-results tab.
ArticleTabProcessed ==
    /\ scraper.call = "search_articles"
    /\ scraper.pc = "switch_back"
    /\ scraper.opened # 0
    /\ scraper.closed # 0

C24_ArticleTabClosed ==
    ArticleTabProcessed =>
        /\ scraper.closed = scraper.opened
        /\ scraper.tabs = scraper.tabs_before
        /\ ResultsTab \in scraper.tabs

\* --------------------------------------------------------------------- C25
\* C25: at the start of every iteration of the article loop the session's
\* current tab is the search-results tab, and while an article is being
\* extracted the session's current tab is the article tab just opened.
C25_CurrentTabFollowsTheLoop ==
    scraper.call = "search_articles" =>
        /\ scraper.pc = "navigate" => scraper.current = ResultsTab
        /\ (scraper.pc = "extract" /\ scraper.opened # 0)
              => scraper.current = scraper.opened
        /\ (scraper.pc = "close" /\ scraper.opened # 0)
              => scraper.read_from = "article"

\* --------------------------------------------------------------------- C26
\* C26: a failed extraction of one search result (link not found, content
\* empty or too short) never ends the article loop: when the loop has ended
\* after a failed extraction and every call on the tabs succeeded, every
\* result up to the target count or the number of results was attempted.
Limit(s) == IF s.max_count < s.result_links THEN s.max_count ELSE s.result_links

C26_FailedExtractionGoesOn ==
    ( /\ scraper.call = "search_articles"
      /\ scraper.pc = "done"
      /\ scraper.ended_by # "return"
      /\ scraper.last_extract \in {"link_failed", "content_failed"}
      /\ ~scraper.infra_failed )
        => scraper.attempted = Limit(scraper)

\* --------------------------------------------------------------------- C28
\* C28: when the results page yields fewer articles than the target count
\* the scraper tries to move to the next results page and goes on
\* collecting, until the target count is reached or max_pages pages have
\* been visited.
C28_PaginationAttempted ==
    ( /\ scraper.call = "search_articles"
      /\ scraper.pc = "done"
      /\ scraper.ended_by = "exhausted"
      /\ scraper.result_links < scraper.max_count
      /\ Len(scraper.articles) < scraper.max_count
      /\ scraper.pages_visited < max_pages )
        => scraper.next_page_attempts > 0

\* --------------------------------------------------------------------- C27
\* C27: article body extraction tries the content-container selectors in
\* list order and returns the text of the first selector whose text is
\* above the minimum length; when no selector yields such a text it returns
\* no content and the article is discarded, nothing is raised.
LongEnough(r) == r.kind = "str" /\ Len(strip(r.text)) > CONTENT_MIN

GoodSelectors(texts) == { i \in DOMAIN texts : LongEnough(texts[i]) }

FirstOf(S) == CHOOSE i \in S : \A j \in S : i <= j

C27_FirstSelectorAboveMinimum ==
    (scraper.call = "_extract_article_content" /\ scraper.pc = "done") =>
        LET good == GoodSelectors(scraper.texts)
        IN  IF good = {}
            THEN scraper.content = NoneValue /\ scraper.article = NoneValue
            ELSE /\ scraper.used = FirstOf(good)
                 /\ scraper.content = Str(strip(scraper.texts[FirstOf(good)].text))
                 /\ scraper.article = scraper.content

\* containers [A, B, C]: A yields an empty text, only B a text above the
\* minimum, and B's text is what came back
C27_Witness ==
    /\ scraper.call = "_extract_article_content"
    /\ scraper.pc = "done"
    /\ Len(scraper.texts) = 3
    /\ scraper.texts[1] = Str(<< >>)
    /\ GoodSelectors(scraper.texts) = {2}
    /\ scraper.texts[3].kind = "str"
    /\ scraper.article = Str(strip(scraper.texts[2].text))

\* --------------------------------------------------------------------- C30
\* C30: TitleReader.get_all_pending_titles returns, in row order, exactly
\* the rows whose trimmed status is not the finished sentinel: rows with an
\* empty status and rows marked by mark_failed are in the result, a row
\* marked by mark_finished is in no later result.
Trimmed(cell) == IF cell.kind = "str" THEN strip(cell.text) ELSE << >>

PendingRows(df) == { i \in DOMAIN df : Trimmed(df[i].status) # FINISHED }

C30_PendingTitlesExact ==
    (entry = "TitleReader" /\ reader.fresh) =>
        LET df == reader.df
            res == reader.result
        IN  /\ Len(res) = Cardinality(PendingRows(df))
            /\ \A k \in DOMAIN res :
                  /\ res[k][1] + 1 \in PendingRows(df)
                  /\ res[k][2] = df[res[k][1] + 1].title
                  /\ \A j \in 1..(k - 1) : res[j][1] < res[k][1]
            /\ \A i \in DOMAIN df :
                  /\ reader.last_mark[i - 1] = "finished"
                        => \A k \in DOMAIN res : res[k][1] # i - 1
                  /\ (reader.last_mark[i - 1] = "failed"
                        \/ df[i].status.kind = "NA")
                        => \E k \in DOMAIN res : res[k][1] = i - 1

\* one row was marked finished and is left out, another was marked failed
\* and is returned
C30_Witness ==
    /\ entry = "TitleReader"
    /\ reader.fresh
    /\ \E i, j \in DOMAIN reader.df :
          /\ reader.last_mark[i - 1] = "finished"
          /\ reader.last_mark[j - 1] = "failed"
          /\ reader.result = << << j - 1, reader.df[j].title >> >>

\* --------------------------------------------------------------------- C29
\* C29: every wait and loop of the pipeline is bounded: whatever the page
\* does, the command-response wait of _send_command, the element waits,
\* the wait for the stop control to disappear and the word-count
\* continuation loop of the Poe automator all come to an end.
WaitsEnded == bm.pc \in {"off", "done"} /\ poe.pc \in {"off", "done"}

C29_EveryWaitEnds == <>WaitsEnded

\* ----------------------------------------------------------------- C31
\* C31: the status of a task is written to the spreadsheet row its title
\* was read from, blank title cells included: the row used by
\* _update_excel_status for task k holds the title of task k, and a titled
\* row is loaded exactly when the status cell of that same row is not the
\* completed sentinel.
TitlesLoaded ==
    /\ entry = "_load_titles_from_excel"
    /\ pc \in {"loop", "status", "next"}

LoadedTitles == { titles[k] : k \in 1..Len(titles) }

C31_StatusRowIsTitleRow ==
    TitlesLoaded =>
      /\ \A k \in 1..Len(titles) :
            LET row == excel_row_index(task_indices, k - 1)
            IN  /\ row < Len(excel.rows)
                /\ excel.rows[row + 1].title = titles[k]
      /\ marked = NoMarks =>
            \A i \in 1..Len(excel.rows) :
               excel.rows[i].title # NaN =>
                  (excel.rows[i].title \in LoadedTitles
                      <=> IsPending(excel.rows[i].status))

\* ----------------------------------------------------------------- C32
\* q is p with elements left out
RECURSIVE IsSubsequence(_, _)
IsSubsequence(p, q) ==
    IF p = << >> THEN TRUE
    ELSE IF q = << >> THEN FALSE
    ELSE IF p[1] = q[1] THEN IsSubsequence(Tail(p), Tail(q))
    ELSE IsSubsequence(p, Tail(q))

IsImageLine(l) == \E k \in DOMAIN save.picture_lines : save.picture_lines[k] = l

\* C32: _insert_images_after_headings conserves its inputs: the lines of the
\* document are in the output in their order, none removed or changed (what
\* is added besides the images is empty lines and the trailing heading), and
\* the image lines of the output are the image list, each once and in the
\* order of the list.
C32_InsertionConservesInputs ==
    Inserted =>
      /\ IsSubsequence(InLines, OutLines)
      /\ SelectSeq(OutLines, IsImageLine) = save.picture_lines
      /\ SelectSeq(OutLines, LAMBDA l : /\ ~IsImageLine(l)
                                        /\ l # << >>
                                        /\ l # RelatedImages)
            = NonEmpty(InLines)

\* two images and a document of two lines with one heading: the first image
\* goes after the heading, the second under the trailing heading
C32_Witness ==
    /\ save.pc = "done" /\ save.ok
    /\ Len(save.picture_lines) = 2
    /\ Len(InLines) = 2
    /\ Cardinality(HeadingPositions(InLines)) = 1
    /\ \E i \in DOMAIN OutLines : OutLines[i] = RelatedImages
    /\ Len(OutLines) > Len(InLines) + 2

\* ----------------------------------------------------------------- C34
\* C34: a click returns true only if mouse events were dispatched at
\* coordinates computed from the target element: a strategy that could not
\* obtain the element's position does not report success, so the next
\* strategy of the chain gets its turn.
C34_SuccessOnlyAtElementCoordinates ==
    ClickReturned =>
        /\ \A i \in DOMAIN bm.tried :
              bm.tried[i][2] => bm.tried[i][3] = "element"
        /\ bm.result = "True" =>
              \E i \in DOMAIN bm.tried : bm.tried[i][3] = "element"

\* ----------------------------------------------------------------- C33
HandleReturned == bm.call = "on_handle" /\ bm.pc = "done"

\* C33: a handle returned by find_element is accepted by click_element,
\* type_text and get_element_text however it was located: on an element
\* that is still on the page, with the commands answered, the operation
\* succeeds for a CSS handle and for an XPath handle alike.
C33_HandlesAcceptedHoweverLocated ==
    (HandleReturned /\ bm.present /\ bm.answered) =>
        bm.result = IF bm.op = "get_element_text" THEN "text" ELSE "True"

\* ----------------------------------------------------------------- C35
\* C35: when opening the article tab for a search result fails, the result
\* is skipped: the loop does not go on to extract or to close for it, and a
\* tab is closed in an iteration only if an article tab was opened in that
\* iteration.
C35_FailedOpenSkipsResult ==
    scraper.call = "search_articles" =>
        /\ scraper.pc \in {"extract", "close"} => scraper.opened # 0
        /\ (scraper.pc = "switch_back" /\ scraper.closed # 0)
              => scraper.opened # 0

\* ----------------------------------------------------------------- C36
\* C36: tab switching is atomic: after switch_to_tab or switch_to_tab_by_id
\* has returned false, current_tab_id and the connection are those from
\* before the call; and whenever the session is connected, its websocket is
\* attached to the tab current_tab_id names.
C36_TabSwitchAtomic ==
    bm.call = "session" =>
        /\ (bm.last.op \in {"switch_to_tab", "switch_to_tab_by_id"}
               /\ bm.last.result = "False")
              => /\ bm.current_tab_id = bm.last.before_tab
                 /\ bm.ws = bm.last.before_ws
        /\ is_connected(bm.ws) => bm.ws.tab = bm.current_tab_id

\* ----------------------------------------------------------------- C37
\* C37: whenever the session has no usable connection (never connected,
\* closed by close_current_tab, closed during a failed tab switch or dropped
\* by the browser), the next command sent through _send_command first
\* attempts to reconnect.
C37_SendReconnectsWhenUnusable ==
    (bm.call = "session" /\ bm.last.op = "_send_command"
        /\ ~is_connected(bm.last.before_ws))
       => bm.last.reconnect

\* ----------------------------------------------------------------- C38
\* set_config with the three keys non-empty and enabled=True, or enable(),
\* has just returned true
Configured ==
    /\ qiniu.pc = "idle"
    /\ qiniu.last.result
    /\ \/ /\ qiniu.last.op = "set_config"
          /\ qiniu.last.args.access_key # ""
          /\ qiniu.last.args.secret_key # ""
          /\ qiniu.last.args.bucket_name # ""
          /\ qiniu.last.args.enabled
       \/ qiniu.last.op = "enable"

\* C38: QiniuConfig is usable once it has been configured: after such a
\* set_config or enable() has returned true, is_enabled() is true on the
\* same object, whatever the configuration file was when the object was
\* created (missing and unreadable included).
C38_EnabledAfterConfigured == Configured => is_enabled(qiniu)

\* ----------------------------------------------------------------- C39
Emitted(name) == Cardinality({i \in DOMAIN signals : signals[i] = name})

\* C39: in every run of run_async the finished signal is emitted exactly
\* once, at the end and after the browser cleanup has been attempted, and
\* the error signal is emitted at most once and before finished; whether
\* the run ends at a failed launch, an empty task list, the last task or an
\* exception.
C39_FinishedOnceAfterCleanup ==
    entry = "run_async" =>
        /\ Emitted("finished") = IF pc = "finished" THEN 1 ELSE 0
        /\ Emitted("error") <= 1
        /\ \A i \in DOMAIN signals :
              signals[i] = "finished" =>
                 /\ i = Len(signals)
                 /\ \E j \in 1..(i - 1) : signals[j] = "cleanup"
        /\ pc = "finished" => (Emitted("error") = 1 <=> exc # None)

\* a run that ended on an exception in the task loop
C39_Witness ==
    /\ entry = "run_async"
    /\ pc = "finished"
    /\ exc \notin {None, "launch"}
    /\ signals = << "error", "cleanup", "finished" >>

\* ----------------------------------------------------------------- C40
\* C40: _send_command returns None or the response whose id is the id of
\* the command it just sent: the ids given to commands are strictly
\* increasing, an event or a late answer to an earlier command is passed
\* and never returned, and the wait ends with None when the time bound has
\* elapsed or on a receive error.
C40_ResponseMatchesCommand ==
    bm.call = "commands" =>
        /\ \A i, j \in DOMAIN bm.sent : i < j => bm.sent[i] < bm.sent[j]
        /\ bm.last.result = "response" =>
              /\ bm.last.response_id = bm.last.id
              /\ bm.pc = "idle" => bm.last.id = bm.sent[Len(bm.sent)]
        /\ bm.last.result = "None" =>
              /\ bm.last.why \in {"not_connected", "send_error", "recv_error",
                                  "timeout"}
              /\ (bm.pc = "idle" /\ bm.last.why = "timeout")
                    => bm.now >= bm.timeout
        /\ bm.pc = "select" => bm.now <= bm.timeout
        /\ bm.message_id \notin bm.skipped

\* the first command timed out; its answer and an event arrived while the
\* second command was waiting, and the second command got its own answer
C40_Witness ==
    /\ bm.call = "commands"
    /\ bm.pc = "idle"
    /\ bm.sent = << 1, 2 >>
    /\ bm.skipped = {EventMessage, 1}
    /\ bm.last.result = "response"
    /\ bm.last.response_id = 2

====
